---------------------------- MODULE Spec2Model ----------------------------
(***************************************************************************)
(* Verification model of RustyConsoleGameEngine (src/src/lib.rs).          *)
(*                                                                         *)
(* The engine has pieces of state that never touch each other:            *)
(*   - the input arrays refreshed by update_keys / update_mouse,           *)
(*   - the control state of the frame loop of start() and the global       *)
(*     RUNNING flag shared with console_handler,                           *)
(*   - the audio worker thread and the mpsc channel feeding it,            *)
(*   - one cell of the worker's mix buffer, followed through one chunk,    *)
(*   - the screen buffer written by the drawing calls.                     *)
(* Each has its own specifications over the shared variable tuple; the     *)
(* variables of the other pieces keep their initial value.                 *)
(***************************************************************************)
EXTENDS Integers, Sequences, FiniteSets, TLC

\* ------------------------------------------------------------------------
\* Bounds of the model
\* ------------------------------------------------------------------------
\* number of keys modelled (the arrays have 256 entries, all handled alike)
NumKeys == 2
\* number of mouse buttons modelled (the arrays have 5 entries)
NumButtons == 2
\* largest number of input records read by one update_mouse call
MaxBatch == 2
\* number of frame-loop events (callback calls and returns, polls, presents)
\* followed in one run of start()
MaxEvents == 16
\* number of console control events delivered during one run of start()
MaxSignals == 2
\* number of AudioEngine handles (the engine's own and its clones)
NumSenders == 2
\* number of audio API calls made in one run, all handles together
MaxCalls == 3
\* the count of buffers handed to the output device stops growing here
MaxOut == 2
\* the chunk counts kept for each active note stop growing here
MaxAge == 6
\* largest number of playing sounds and of active notes mixed into one cell
MaxSounds == 2
MaxNotes == 2
\* number of distinct note frequencies used
NumFreqs == 2
\* size of the screen buffer in cells
ScreenW == 5
ScreenH == 5
\* largest number of characters of a drawn string
MaxText == 2
\* largest number of vertices of a filled model
MaxVerts == 4
\* largest radius of a circle
MaxRadius == 4
\* audio calls the game makes from its callbacks while start runs
GameCalls == 1
\* largest width and height of a sprite whose cells are written and read
MaxSpriteDim == 2
\* largest number of setter calls made on one sprite
MaxSets == 2
\* number of stereo frames of the chunk a playing sound is followed through
\* (CHUNK_SIZE in the program) and largest number of samples of its data
ChunkFrames == 2
\* largest number of bytes of a sprite file handed to from_file
MaxFileLen == 16
MaxData == 5

Keys == 0 .. (NumKeys - 1)
Buttons == 0 .. (NumButtons - 1)

\* ------------------------------------------------------------------------
\* State
\* ------------------------------------------------------------------------
VARIABLES
    \* ConsoleGameEngine fields, lib.rs 1244-1259
    key_new_state, key_old_state, key_pressed, key_released, key_held,
    mouse_new_state, mouse_old_state, mouse_pressed, mouse_released, mouse_held,
    mouse_x, mouse_y, console_in_focus,
    \* history: the raw value each key returned in the poll before the last one,
    \* and the progress of each key through the poll sequence down, down, up
    key_prev_poll, key_seq,
    \* history: for each button, whether the last update_mouse call left it in
    \* another state than the call before
    mouse_changed,
    \* history: the types of the records the last update_mouse call read
    mouse_read,
    \* history: for each button, whether the records of the last update_mouse
    \* call pressed it and released it again
    mouse_tapped,
    \* static RUNNING, lib.rs 1169
    RUNNING,
    \* position of the main thread in start(), lib.rs 1582-1643
    pc,
    \* history: the calls and returns of the callbacks, the polls and the
    \* presents of this run, in order
    trace,
    \* history: console control events delivered so far, and whether a
    \* CTRL_CLOSE_EVENT was delivered with no call of destroy since
    signals, close_pending,
    \* the mpsc channel: commands sent and not yet received, oldest first
    queue,
    \* the worker thread: its position, and its locals samples,
    \* active_sounds and active_notes, lib.rs 848-850
    wpc, samples, active_sounds, active_notes,
    \* static NOTE_COUNTER, lib.rs 770
    NOTE_COUNTER,
    \* each handle: number of commands it has sent, the second command of a
    \* play_note call under way (op "none" when there is none), and whether it was dropped
    nsent, pending, dropped,
    \* history: number of API calls made, commands received by the worker in
    \* order, number of buffers passed to play_buffer (up to MaxOut)
    calls, consumed, out_count,
    \* history: for each entry of active_notes, the number of chunks rendered
    \* since its NoteOn was received and since the first NoteOff that matched
    \* it was received (-1: none yet), both counted up to MaxAge
    note_age,
    \* the files on the disk that load_wav reads: what each path holds
    disk,
    \* one cell of mix_buffer: whether it has just been zeroed or its chunk
    \* was played, the samples the playing sounds add to it, the sine value
    \* and amplitude of the notes added to it, and the sample of final_buffer
    \* made from it, lib.rs 921-969
    mix_pc, mix_sounds, mix_notes, final_sample,
    \* ConsoleGameEngine::window_buffer, lib.rs 1266: the glyph of each cell,
    \* row by row
    window_buffer,
    \* whether a drawing call was made and whether it returned or panicked
    draw_pc,
    \* history: the drawing call made, the cells (x, y) it addressed in order
    \* (off the buffer or not), and for draw_filled_model the number of
    \* intersections found on each scanline
    draw_op, addressed, crossings,
    \* ConsoleGameEngine::window_buffer: the Attributes of each cell
    window_attr,
    \* a Sprite, lib.rs 627-634, the last call made on it with its result,
    \* and the number of setter calls made
    sprite, sprite_op, sprite_sets,
    \* the bytes of a sprite file, and the result of from_file on it
    file, loaded,
    \* a PlayingSound, lib.rs 772-775, the mix_buffer of the chunk being
    \* rendered and the index i of the loop of line 924
    chunk_sound, mix_buffer, chunk_i

inputVars == << key_new_state, key_old_state, key_pressed, key_released, key_held,
                mouse_new_state, mouse_old_state, mouse_pressed, mouse_released,
                mouse_held, mouse_x, mouse_y, console_in_focus,
                key_prev_poll, key_seq, mouse_changed, mouse_read,
                mouse_tapped >>

schedVars == << RUNNING, pc, trace, signals, close_pending >>

audioVars == << queue, wpc, samples, active_sounds, active_notes, NOTE_COUNTER,
                nsent, pending, dropped, calls, consumed, out_count, note_age,
                disk >>

mixVars == << mix_pc, mix_sounds, mix_notes, final_sample >>

\* the variables of the functions checked one call at a time
drawVars == << window_buffer, window_attr, draw_pc, draw_op, addressed, crossings >>

spriteVars == << sprite, sprite_op, sprite_sets, file, loaded >>

chunkVars == << chunk_sound, mix_buffer, chunk_i >>

pureVars == << mixVars, drawVars, spriteVars, chunkVars >>

vars == << inputVars, schedVars, audioVars, pureVars >>

\* ------------------------------------------------------------------------
\* Keyboard: update_keys, lib.rs 1504-1523
\* ------------------------------------------------------------------------
\* GetAsyncKeyState as u16: bit 0x8000 is "down now", bit 0x0001 is "pressed
\* since the previous call"; the two bits vary independently.
KEY_DOWN_BIT == 32768
RawValues == {0, 1, KEY_DOWN_BIT, KEY_DOWN_BIT + 1}

\* (v & 0x8000) != 0
IsDown(raw) == (raw \div KEY_DOWN_BIT) % 2 = 1

\* variant: every change of the raw value with the down bit set is a press
KeyPressedAfter_IgnoresHeld(old, held, raw) ==
    IF raw # old /\ IsDown(raw) THEN TRUE ELSE FALSE

\* key_pressed[i] after the body of the loop, for one key
KeyPressedAfter(old, held, raw) ==
    IF raw # old /\ IsDown(raw) THEN ~held ELSE FALSE

\* key_released[i] after the body of the loop, for one key
KeyReleasedAfter(old, held, raw) ==
    IF raw # old /\ ~IsDown(raw) THEN TRUE ELSE FALSE

\* variant: the release branch does not clear key_held
KeyHeldAfter_NotCleared(old, held, raw) ==
    IF raw # old /\ IsDown(raw) THEN TRUE ELSE held

\* key_held[i] after the body of the loop, for one key
KeyHeldAfter(old, held, raw) ==
    IF raw # old THEN IsDown(raw) ELSE held

\* history automaton recognising the polls down, down, up from the start
\* ("u": one poll so far, key up; "other": any other sequence of polls)
KeySeqAfter(seq, raw) ==
    CASE seq = "start" /\ IsDown(raw)  -> "d"
      [] seq = "start" /\ ~IsDown(raw) -> "u"
      [] seq = "d"     /\ IsDown(raw)  -> "dd"
      [] seq = "dd"    /\ ~IsDown(raw) -> "ddu"
      [] OTHER                         -> "other"

update_keys ==
    \E poll \in [Keys -> RawValues] :
        /\ key_new_state' = poll
        /\ key_pressed' = [i \in Keys |->
               KeyPressedAfter(key_old_state[i], key_held[i], poll[i])]
        /\ key_released' = [i \in Keys |->
               KeyReleasedAfter(key_old_state[i], key_held[i], poll[i])]
        /\ key_held' = [i \in Keys |->
               KeyHeldAfter(key_old_state[i], key_held[i], poll[i])]
        /\ key_old_state' = poll
        /\ key_prev_poll' = key_new_state
        /\ key_seq' = [i \in Keys |-> KeySeqAfter(key_seq[i], poll[i])]
        /\ UNCHANGED << mouse_new_state, mouse_old_state, mouse_pressed,
                        mouse_released, mouse_held, mouse_x, mouse_y,
                        console_in_focus, mouse_changed, mouse_read,
                        mouse_tapped >>
        /\ UNCHANGED << schedVars, audioVars, pureVars >>

\* ------------------------------------------------------------------------
\* Mouse: update_mouse, lib.rs 1525-1577
\* ------------------------------------------------------------------------
\* The INPUT_RECORDs the console can queue.  A record carries the fields the
\* code reads for its kind: bSetFocus of a FOCUS_EVENT, dwButtonState of a
\* MOUSE_EVENT with dwEventFlags = 0, dwMousePosition of a MOUSE_MOVED one.
\* "wheel" is a MOUSE_EVENT with other flags, "key" any other event type.
Coords == {0, 1}
Records ==
    [type : {"focus"}, set : BOOLEAN]
    \cup [type : {"button"}, state : SUBSET Buttons]
    \cup [type : {"moved"}, x : Coords, y : Coords]
    \cup [type : {"wheel", "key"}]

Batches == UNION { [1 .. n -> Records] : n \in 0 .. MaxBatch }

\* variant: the focus flag is taken from key records too
ApplyRecord_KeyFocuses(st, rec) ==
    CASE rec.type \in {"focus", "key"} ->
            [st EXCEPT !.focus = IF rec.type = "focus" THEN rec.set ELSE FALSE]
      [] rec.type = "button" ->
            [st EXCEPT !.new = [m \in Buttons |-> m \in rec.state]]
      [] rec.type = "moved" -> [st EXCEPT !.x = rec.x, !.y = rec.y]
      [] OTHER -> st

\* effect of one record of the batch on (focus, new_state, x, y)
ApplyRecord(st, rec) ==
    CASE rec.type = "focus" -> [st EXCEPT !.focus = rec.set]
      [] rec.type = "button" ->
            [st EXCEPT !.new = [m \in Buttons |-> m \in rec.state]]
      [] rec.type = "moved" -> [st EXCEPT !.x = rec.x, !.y = rec.y]
      [] OTHER -> st

\* variant: only the first record of the batch is applied
FoldRecords_FirstOnly(st, batch) ==
    IF batch = << >> THEN st ELSE ApplyRecord(st, Head(batch))

\* for record in &in_buf[..read]
RECURSIVE FoldRecords(_, _)
FoldRecords(st, batch) ==
    IF batch = << >> THEN st
    ELSE FoldRecords(ApplyRecord(st, Head(batch)), Tail(batch))

\* the positions of the batch that hold a MOUSE_EVENT with dwEventFlags = 0
ButtonRecords(batch) == {k \in DOMAIN batch : batch[k].type = "button"}

\* button m is up before the batch, down in one of its records and up in
\* the last of its button records
Tapped(batch, m) ==
    /\ ~mouse_new_state[m]
    /\ \E k \in ButtonRecords(batch) :
          /\ m \in batch[k].state
          /\ \E j \in ButtonRecords(batch) :
                /\ j > k
                /\ m \notin batch[j].state
                /\ \A i \in ButtonRecords(batch) : i <= j

MousePressedAfter(new, old) == IF new # old /\ new THEN TRUE ELSE FALSE

MouseReleasedAfter(new, old) == IF new # old /\ ~new THEN TRUE ELSE FALSE

MouseHeldAfter(new, old, held) == IF new # old THEN new ELSE held

\* update_mouse when read_console_input_w returns the records of batch
update_mouse_on(batch) ==
        LET st == FoldRecords([focus |-> console_in_focus,
                               new |-> mouse_new_state,
                               x |-> mouse_x, y |-> mouse_y], batch)
        IN  /\ mouse_changed' = [m \in Buttons |-> st.new[m] # mouse_new_state[m]]
            /\ mouse_read' = {batch[k].type : k \in DOMAIN batch}
            /\ mouse_tapped' = [m \in Buttons |-> Tapped(batch, m)]
            /\ IF Len(batch) = 0
               THEN \* events == 0: return
                    UNCHANGED << mouse_new_state, mouse_old_state, mouse_pressed,
                                 mouse_released, mouse_held, mouse_x, mouse_y,
                                 console_in_focus >>
               ELSE /\ console_in_focus' = st.focus
                    /\ mouse_x' = st.x
                    /\ mouse_y' = st.y
                    /\ mouse_new_state' = st.new
                    /\ mouse_pressed' = [m \in Buttons |->
                           MousePressedAfter(st.new[m], mouse_old_state[m])]
                    /\ mouse_released' = [m \in Buttons |->
                           MouseReleasedAfter(st.new[m], mouse_old_state[m])]
                    /\ mouse_held' = [m \in Buttons |->
                           MouseHeldAfter(st.new[m], mouse_old_state[m], mouse_held[m])]
                    /\ mouse_old_state' = st.new
            /\ UNCHANGED << key_new_state, key_old_state, key_pressed,
                            key_released, key_held, key_prev_poll, key_seq >>
            /\ UNCHANGED << schedVars, audioVars, pureVars >>

update_mouse == \E batch \in Batches : update_mouse_on(batch)

\* one record of each type, and of the types with a payload one more
ReadRecords ==
    {[type |-> "focus", set |-> FALSE], [type |-> "focus", set |-> TRUE],
     [type |-> "button", state |-> {0}], [type |-> "button", state |-> {}],
     [type |-> "moved", x |-> 1, y |-> 0], [type |-> "moved", x |-> 0, y |-> 1],
     [type |-> "wheel"], [type |-> "key"]}

ReadBatches == UNION { [1 .. n -> ReadRecords] : n \in 0 .. MaxBatch }

\* update_mouse on the batches of these records
update_mouse_read == \E batch \in ReadBatches : update_mouse_on(batch)

\* the button records of every button state, and one record of another kind
TapRecords ==
    [type : {"button"}, state : SUBSET Buttons]
    \cup {[type |-> "moved", x |-> 1, y |-> 0]}

TapBatches == UNION { [1 .. n -> TapRecords] : n \in 0 .. MaxBatch }

\* update_mouse on the batches of these records
update_mouse_buttons == \E batch \in TapBatches : update_mouse_on(batch)

InitInput ==
    /\ key_new_state = [i \in Keys |-> 0]
    /\ key_old_state = [i \in Keys |-> 0]
    /\ key_pressed = [i \in Keys |-> FALSE]
    /\ key_released = [i \in Keys |-> FALSE]
    /\ key_held = [i \in Keys |-> FALSE]
    /\ mouse_new_state = [m \in Buttons |-> FALSE]
    /\ mouse_old_state = [m \in Buttons |-> FALSE]
    /\ mouse_pressed = [m \in Buttons |-> FALSE]
    /\ mouse_released = [m \in Buttons |-> FALSE]
    /\ mouse_held = [m \in Buttons |-> FALSE]
    /\ mouse_x = 0
    /\ mouse_y = 0
    /\ console_in_focus = TRUE
    /\ key_prev_poll = [i \in Keys |-> 0]
    /\ key_seq = [i \in Keys |-> "start"]
    /\ mouse_changed = [m \in Buttons |-> FALSE]
    /\ mouse_read = {}
    /\ mouse_tapped = [m \in Buttons |-> FALSE]

\* ------------------------------------------------------------------------
\* Frame loop: ConsoleGameEngine::start and console_handler
\* ------------------------------------------------------------------------
\* The main thread is followed from one access of RUNNING to the next; the
\* handler runs on a thread of its own and stores into RUNNING at any time.
\* The callbacks are the game's: each returns true or false.  The two polls
\* write the input arrays only (update_keys and update_mouse above), which
\* the control flow of start() never reads: here they are steps of the loop.

Log(e) == /\ Len(trace) < MaxEvents
          /\ trace' = Append(trace, e)

\* if !game.create(&mut self) { RUNNING.store(false) }
AfterCreate(r) == IF r THEN "outer_test" ELSE "create_store"

\* while RUNNING.load(SeqCst) {            (outer loop, line 1594)
AfterOuterTest(running) == IF running THEN "inner_test" ELSE "done"

\*     while RUNNING.load(SeqCst) {        (inner loop, line 1595)
AfterInnerTest(running) == IF running THEN "keys" ELSE "destroy"

\* variant: the loop is left as soon as update returns false
AfterUpdate_Breaks(r) == IF r THEN "present" ELSE "destroy"

\* if !game.update(..) { RUNNING.store(false) }, then the present
AfterUpdate(r) == IF r THEN "present" ELSE "update_store"

\* if !game.destroy(&mut self) { RUNNING.store(true) }
AfterDestroy(r) == IF r THEN "outer_test" ELSE "destroy_store"

CreateCall ==
    /\ pc = "start"
    /\ Log("create")
    /\ pc' = "in_create"
    /\ UNCHANGED << RUNNING, signals, close_pending, inputVars, audioVars, pureVars >>

CreateReturn ==
    /\ pc = "in_create"
    /\ \E r \in BOOLEAN :
          /\ Log(IF r THEN "create:true" ELSE "create:false")
          /\ pc' = AfterCreate(r)
    /\ UNCHANGED << RUNNING, signals, close_pending, inputVars, audioVars, pureVars >>

CreateStore ==
    /\ pc = "create_store"
    /\ RUNNING' = FALSE
    /\ pc' = "outer_test"
    /\ UNCHANGED << trace, signals, close_pending, inputVars, audioVars, pureVars >>

OuterTest ==
    /\ pc = "outer_test"
    /\ pc' = AfterOuterTest(RUNNING)
    /\ UNCHANGED << RUNNING, trace, signals, close_pending, inputVars, audioVars, pureVars >>

InnerTest ==
    /\ pc = "inner_test"
    /\ pc' = AfterInnerTest(RUNNING)
    /\ UNCHANGED << RUNNING, trace, signals, close_pending, inputVars, audioVars, pureVars >>

PollKeys ==
    /\ pc = "keys"
    /\ Log("keys")
    /\ pc' = "mouse"
    /\ UNCHANGED << RUNNING, signals, close_pending, inputVars, audioVars, pureVars >>

PollMouse ==
    /\ pc = "mouse"
    /\ Log("mouse")
    /\ pc' = "update"
    /\ UNCHANGED << RUNNING, signals, close_pending, inputVars, audioVars, pureVars >>

UpdateCall ==
    /\ pc = "update"
    /\ Log("update")
    /\ pc' = "in_update"
    /\ UNCHANGED << RUNNING, signals, close_pending, inputVars, audioVars, pureVars >>

UpdateReturn ==
    /\ pc = "in_update"
    /\ \E r \in BOOLEAN :
          /\ Log(IF r THEN "update:true" ELSE "update:false")
          /\ pc' = AfterUpdate(r)
    /\ UNCHANGED << RUNNING, signals, close_pending, inputVars, audioVars, pureVars >>

UpdateStore ==
    /\ pc = "update_store"
    /\ RUNNING' = FALSE
    /\ pc' = "present"
    /\ UNCHANGED << trace, signals, close_pending, inputVars, audioVars, pureVars >>

\* set_console_title and write_console_output, lines 1615-1636
Present ==
    /\ pc = "present"
    /\ Log("present")
    /\ pc' = "inner_test"
    /\ UNCHANGED << RUNNING, signals, close_pending, inputVars, audioVars, pureVars >>

DestroyCall ==
    /\ pc = "destroy"
    /\ Log("destroy")
    /\ pc' = "in_destroy"
    /\ close_pending' = FALSE
    /\ UNCHANGED << RUNNING, signals, inputVars, audioVars, pureVars >>

DestroyReturn ==
    /\ pc = "in_destroy"
    /\ \E r \in BOOLEAN :
          /\ Log(IF r THEN "destroy:true" ELSE "destroy:false")
          /\ pc' = AfterDestroy(r)
    /\ UNCHANGED << RUNNING, signals, close_pending, inputVars, audioVars, pureVars >>

DestroyStore ==
    /\ pc = "destroy_store"
    /\ RUNNING' = TRUE
    /\ pc' = "outer_test"
    /\ UNCHANGED << trace, signals, close_pending, inputVars, audioVars, pureVars >>

\* console_handler(ctrl_type), lib.rs 1171-1176, while start() is running
CtrlTypes == {"CTRL_C_EVENT", "CTRL_CLOSE_EVENT"}

console_handler ==
    /\ pc # "done"
    /\ signals < MaxSignals
    /\ signals' = signals + 1
    /\ \E ctrl_type \in CtrlTypes :
          IF ctrl_type = "CTRL_CLOSE_EVENT"
          THEN RUNNING' = FALSE /\ close_pending' = TRUE
          ELSE UNCHANGED << RUNNING, close_pending >>
    /\ UNCHANGED << pc, trace, inputVars, audioVars, pureVars >>

InitSched ==
    /\ RUNNING = TRUE
    /\ pc = "start"
    /\ trace = << >>
    /\ signals = 0
    /\ close_pending = FALSE

\* ------------------------------------------------------------------------
\* Audio: AudioEngine and its worker thread, lib.rs 767-1163
\* ------------------------------------------------------------------------
Senders == 1 .. NumSenders

CHUNK_SIZE == 512

\* frames of the attack and of the release ramp: 44100 * (50 / 1000).  The
\* amplitude of a note is counted in steps of 1 / RAMP_FRAMES, so that 1.0
\* is RAMP_FRAMES and the per-frame step is +1 or -1.
RAMP_FRAMES == 2205

\* the files the paths name: WAV files with n 16-bit samples after the data
\* chunk header (an even number, an odd number as in a mono file with an
\* odd number of frames, and none), a file without the bytes "data", and
\* no file at all
Files ==
    ("ok.wav" :> [kind |-> "wav", len |-> 1500])
    @@ ("odd.wav" :> [kind |-> "wav", len |-> 3])
    @@ ("empty.wav" :> [kind |-> "wav", len |-> 0])
    @@ ("nodata.wav" :> [kind |-> "nodata"])
    @@ ("cut.wav" :> [kind |-> "cut", size |-> 44, marker |-> 38])
    @@ ("missing.wav" :> [kind |-> "missing"])

Paths == DOMAIN Files

\* sample count of play_note: ((duration_ms / 1000.0) * 44100.0) as usize
SampleCount(duration_ms) == (duration_ms * 44100) \div 1000

\* a PCM buffer is known by where it comes from and by its length
FileBuffer(path) == [src |-> path, len |-> disk[path].len]
NoteBuffer(key, duration_ms) == [src |-> key, len |-> 2 * SampleCount(duration_ms)]

\* some program writes another recording to the file of a path
Rewritten == [kind |-> "wav", len |-> 8]

rewrite_file(path) ==
    /\ disk[path] = Files[path]
    /\ disk' = [disk EXCEPT ![path] = Rewritten]
    /\ UNCHANGED << queue, wpc, samples, active_sounds, active_notes, NOTE_COUNTER,
                    nsent, pending, dropped, calls, consumed, out_count, note_age >>
    /\ UNCHANGED << inputVars, schedVars, pureVars >>

\* ---- the handles ----
\* self.tx.send(cmd): the command joins the queue while the receiver lives;
\* once the worker thread has ended the receiver is gone, send returns Err
\* and the result is discarded (let _ = ...)
WorkerEnded == wpc \in {"failed", "quit", "panicked"}

\* variant: the channel takes commands after the receiver is gone
Send_KeepsQueueing(s, cmd) ==
    /\ nsent' = [nsent EXCEPT ![s] = @ + 1]
    /\ queue' = Append(queue, [from |-> s, seq |-> nsent[s] + 1, cmd |-> cmd])

Send(s, cmd) ==
    /\ nsent' = [nsent EXCEPT ![s] = @ + 1]
    /\ queue' = IF WorkerEnded THEN queue
                ELSE Append(queue, [from |-> s, seq |-> nsent[s] + 1, cmd |-> cmd])

CanCall(s) == ~dropped[s] /\ pending[s].op = "none" /\ calls < MaxCalls

load_sample(s, path) ==
    /\ CanCall(s)
    /\ Send(s, [op |-> "LoadSample", path |-> path])
    /\ calls' = calls + 1
    /\ UNCHANGED << wpc, samples, active_sounds, active_notes, NOTE_COUNTER,
                    pending, dropped, consumed, out_count >>
    /\ UNCHANGED << note_age, disk, inputVars, schedVars, pureVars >>

play_sample(s, path) ==
    /\ CanCall(s)
    /\ Send(s, [op |-> "PlaySample", path |-> path])
    /\ calls' = calls + 1
    /\ UNCHANGED << wpc, samples, active_sounds, active_notes, NOTE_COUNTER,
                    pending, dropped, consumed, out_count >>
    /\ UNCHANGED << note_age, disk, inputVars, schedVars, pureVars >>

\* variant: the counter is read modulo 2, so that a third call draws the
\* key of the first
generate_unique_key_Mod2(id) == "__temp_notes_" \o ToString(id % 2)

\* generate_unique_key: "__temp_notes_{id}" with id = NOTE_COUNTER.fetch_add(1)
generate_unique_key(id) == "__temp_notes_" \o ToString(id)

\* play_note up to its first send; the key is drawn and the first of the
\* two commands is sent, the second one is left pending
play_note(s, frequency, duration_ms) ==
    /\ CanCall(s)
    /\ calls' = calls + 1
    /\ IF SampleCount(duration_ms) = 0
       THEN UNCHANGED << queue, nsent, pending, NOTE_COUNTER >>
       ELSE LET key == generate_unique_key(NOTE_COUNTER)
            IN  /\ NOTE_COUNTER' = NOTE_COUNTER + 1
                /\ Send(s, [op |-> "LoadSampleFromBuffer", path |-> key,
                            buffer |-> NoteBuffer(key, duration_ms)])
                /\ pending' = [pending EXCEPT ![s] =
                                  [op |-> "PlaySample", path |-> key]]
    /\ UNCHANGED << wpc, samples, active_sounds, active_notes,
                    dropped, consumed, out_count >>
    /\ UNCHANGED << note_age, disk, inputVars, schedVars, pureVars >>

\* play_notes, lines 1041-1080: nothing is sent for an empty chord; else the
\* chord is rendered into one buffer and sent like the buffer of play_note
play_notes(s, freqs, duration_ms) ==
    /\ CanCall(s)
    /\ calls' = calls + 1
    /\ IF freqs = << >> \/ SampleCount(duration_ms) = 0
       THEN UNCHANGED << queue, nsent, pending, NOTE_COUNTER >>
       ELSE LET key == generate_unique_key(NOTE_COUNTER)
            IN  /\ NOTE_COUNTER' = NOTE_COUNTER + 1
                /\ Send(s, [op |-> "LoadSampleFromBuffer", path |-> key,
                            buffer |-> NoteBuffer(key, duration_ms)])
                /\ pending' = [pending EXCEPT ![s] =
                                  [op |-> "PlaySample", path |-> key]]
    /\ UNCHANGED << wpc, samples, active_sounds, active_notes,
                    dropped, consumed, out_count >>
    /\ UNCHANGED << note_age, disk, inputVars, schedVars, pureVars >>

\* the second send of play_note
play_note_second(s) ==
    /\ pending[s].op # "none"
    /\ Send(s, pending[s])
    /\ pending' = [pending EXCEPT ![s] = [op |-> "none"]]
    /\ UNCHANGED << wpc, samples, active_sounds, active_notes, NOTE_COUNTER,
                    dropped, calls, consumed, out_count >>
    /\ UNCHANGED << note_age, disk, inputVars, schedVars, pureVars >>

note_on(s, freq) ==
    /\ CanCall(s)
    /\ Send(s, [op |-> "NoteOn", freq |-> freq])
    /\ calls' = calls + 1
    /\ UNCHANGED << wpc, samples, active_sounds, active_notes, NOTE_COUNTER,
                    pending, dropped, consumed, out_count >>
    /\ UNCHANGED << note_age, disk, inputVars, schedVars, pureVars >>

note_off(s, freq) ==
    /\ CanCall(s)
    /\ Send(s, [op |-> "NoteOff", freq |-> freq])
    /\ calls' = calls + 1
    /\ UNCHANGED << wpc, samples, active_sounds, active_notes, NOTE_COUNTER,
                    pending, dropped, consumed, out_count >>
    /\ UNCHANGED << note_age, disk, inputVars, schedVars, pureVars >>

\* impl Drop for AudioEngine
drop(s) ==
    /\ CanCall(s)
    /\ Send(s, [op |-> "Quit"])
    /\ dropped' = [dropped EXCEPT ![s] = TRUE]
    /\ calls' = calls + 1
    /\ UNCHANGED << wpc, samples, active_sounds, active_notes, NOTE_COUNTER,
                    pending, consumed, out_count >>
    /\ UNCHANGED << note_age, disk, inputVars, schedVars, pureVars >>

\* ---- the worker thread ----
\* waveOutOpen, lines 831-846: on failure the thread returns
OpenDevice ==
    /\ wpc = "open"
    /\ \E res_ok \in BOOLEAN : wpc' = IF res_ok THEN "drain" ELSE "failed"
    /\ UNCHANGED << queue, samples, active_sounds, active_notes, NOTE_COUNTER,
                    nsent, pending, dropped, calls, consumed, out_count >>
    /\ UNCHANGED << note_age, disk, inputVars, schedVars, pureVars >>

\* load_wav(path), lines 1123-1135: Err when the file cannot be opened, a
\* panic from unwrap() when the bytes "data" do not occur, a panic from the
\* slice buf[data_start..] when data_start = marker + 8 lies beyond the end of
\* the file, else the samples
load_wav(path) ==
    CASE disk[path].kind = "missing" -> [res |-> "Err"]
      [] disk[path].kind = "nodata"  -> [res |-> "panic"]
      [] disk[path].kind = "cut" /\ disk[path].marker + 8 > disk[path].size
                                      -> [res |-> "panic"]
      [] OTHER                        -> [res |-> "Ok", data |-> FileBuffer(path)]

\* variant: Quit is received like a command without effect
AfterCommand_QuitIgnored(cmd) ==
    CASE cmd.op = "LoadSample" /\ load_wav(cmd.path).res = "panic" -> "panicked"
      [] OTHER -> "drain"

\* where the worker goes after receiving cmd
AfterCommand(cmd) ==
    CASE cmd.op = "Quit" -> "quit"
      [] cmd.op = "LoadSample" /\ load_wav(cmd.path).res = "panic" -> "panicked"
      [] OTHER -> "drain"

\* samples after cmd
SamplesAfter(smp, cmd) ==
    CASE cmd.op = "LoadSample" /\ load_wav(cmd.path).res = "Ok" ->
            [k \in DOMAIN smp \cup {cmd.path} |->
                IF k = cmd.path THEN load_wav(cmd.path).data ELSE smp[k]]
      [] cmd.op = "LoadSampleFromBuffer" ->
            [k \in DOMAIN smp \cup {cmd.path} |->
                IF k = cmd.path THEN cmd.buffer ELSE smp[k]]
      [] OTHER -> smp

\* variant: a sample that is playing is not started again
SoundsAfter_OnePerSample(snd, smp, cmd) ==
    IF /\ cmd.op = "PlaySample" /\ cmd.path \in DOMAIN smp
       /\ \A k \in DOMAIN snd : snd[k].data # smp[cmd.path]
    THEN Append(snd, [data |-> smp[cmd.path], cursor |-> 0])
    ELSE snd

\* variant: a playing instance refers to the library entry it was started
\* from, so that a command that replaces the entry replaces its data
SoundsAfter_SharesLibrary(snd, smp, cmd) ==
    CASE cmd.op = "PlaySample" /\ cmd.path \in DOMAIN smp ->
            Append(snd, [data |-> smp[cmd.path], cursor |-> 0])
      [] cmd.op \in {"LoadSample", "LoadSampleFromBuffer"}
            /\ cmd.path \in DOMAIN smp ->
            [k \in DOMAIN snd |->
                IF snd[k].data = smp[cmd.path]
                THEN [snd[k] EXCEPT !.data = SamplesAfter(smp, cmd)[cmd.path]]
                ELSE snd[k]]
      [] OTHER -> snd

\* active_sounds after cmd
SoundsAfter(snd, smp, cmd) ==
    IF cmd.op = "PlaySample" /\ cmd.path \in DOMAIN smp
    THEN Append(snd, [data |-> smp[cmd.path], cursor |-> 0])
    ELSE snd

\* variant: a NoteOff releases every active note, whatever its frequency
NotesAfter_OffAll(notes, cmd) ==
    CASE cmd.op = "NoteOn" ->
            Append(notes, [freq |-> cmd.freq, amplitude |-> 0,
                           target_amp |-> RAMP_FRAMES, step |-> 1, active |-> TRUE])
      [] cmd.op = "NoteOff" ->
            [k \in DOMAIN notes |->
                IF notes[k].active
                THEN [notes[k] EXCEPT !.target_amp = 0, !.step = -1]
                ELSE notes[k]]
      [] OTHER -> notes

\* active_notes after cmd
NotesAfter(notes, cmd) ==
    CASE cmd.op = "NoteOn" ->
            Append(notes, [freq |-> cmd.freq, amplitude |-> 0,
                           target_amp |-> RAMP_FRAMES, step |-> 1, active |-> TRUE])
      [] cmd.op = "NoteOff" ->
            [k \in DOMAIN notes |->
                IF notes[k].freq = cmd.freq /\ notes[k].active
                THEN [notes[k] EXCEPT !.target_amp = 0, !.step = -1]
                ELSE notes[k]]
      [] OTHER -> notes

\* note_age after cmd: a new note starts both counts, a NoteOff starts the
\* second count of the notes it changes unless an earlier one has started it
AgesAfter(ages, notes, cmd) ==
    CASE cmd.op = "NoteOn" -> Append(ages, [on |-> 0, off |-> -1])
      [] cmd.op = "NoteOff" ->
            [k \in DOMAIN ages |->
                IF notes[k].freq = cmd.freq /\ notes[k].active /\ ages[k].off < 0
                THEN [ages[k] EXCEPT !.off = 0]
                ELSE ages[k]]
      [] OTHER -> ages

\* play_buffer calls made while handling cmd: the attack or release burst
BuffersFor(cmd) == IF cmd.op \in {"NoteOn", "NoteOff"} THEN 1 ELSE 0

Counted(n) == IF n > MaxOut THEN MaxOut ELSE n

\* while let Ok(cmd) = rx.try_recv() { match cmd { ... } }
Receive ==
    /\ wpc = "drain"
    /\ queue # << >>
    /\ LET cmd == Head(queue).cmd
       IN  /\ queue' = Tail(queue)
           /\ consumed' = Append(consumed, Head(queue))
           /\ wpc' = AfterCommand(cmd)
           /\ samples' = SamplesAfter(samples, cmd)
           /\ active_sounds' = SoundsAfter(active_sounds, samples, cmd)
           /\ active_notes' = NotesAfter(active_notes, cmd)
           /\ note_age' = AgesAfter(note_age, active_notes, cmd)
           /\ out_count' = Counted(out_count + BuffersFor(cmd))
    /\ UNCHANGED << NOTE_COUNTER, nsent, pending, dropped, calls >>
    /\ UNCHANGED << disk, inputVars, schedVars, pureVars >>

\* try_recv() returns Err: the queue is empty, the drain loop ends
ReceiveEmpty ==
    /\ wpc = "drain"
    /\ queue = << >>
    /\ wpc' = "mix"
    /\ UNCHANGED << queue, samples, active_sounds, active_notes, NOTE_COUNTER,
                    nsent, pending, dropped, calls, consumed, out_count >>
    /\ UNCHANGED << note_age, disk, inputVars, schedVars, pureVars >>

Min(a, b) == IF a < b THEN a ELSE b
Max(a, b) == IF a > b THEN a ELSE b

\* a sound after the CHUNK_SIZE frames of lines 923-932: the cursor moves by
\* two samples in every frame in which cursor + 1 < data.len()
SoundAfterChunk(sound) ==
    [sound EXCEPT !.cursor =
        @ + 2 * Min(CHUNK_SIZE, Max(0, sound.data.len - @) \div 2)]

\* variant: a note that has reached the target of its attack is cleared
NoteAfterChunk_EndsAtTarget(note) ==
    IF ~note.active THEN note
    ELSE IF note.step > 0
    THEN [note EXCEPT !.amplitude = Min(@ + CHUNK_SIZE, note.target_amp),
                      !.active = (note.amplitude < note.target_amp)]
    ELSE [note EXCEPT !.amplitude = Max(@ - CHUNK_SIZE, 0),
                      !.active = (note.amplitude >= CHUNK_SIZE)]

\* variant: the release ramp never clears active
NoteAfterChunk_NeverInactive(note) ==
    IF ~note.active THEN note
    ELSE IF note.step > 0
    THEN [note EXCEPT !.amplitude = Min(@ + CHUNK_SIZE, note.target_amp)]
    ELSE [note EXCEPT !.amplitude = Max(@ - CHUNK_SIZE, 0)]

\* a note after the CHUNK_SIZE frames of lines 937-962: the amplitude moves
\* by one step in every frame in which it has not reached the target, and a
\* frame that finds it at target 0 clears active
NoteAfterChunk(note) ==
    IF ~note.active THEN note
    ELSE IF note.step > 0
    THEN [note EXCEPT !.amplitude = Min(@ + CHUNK_SIZE, note.target_amp)]
    ELSE [note EXCEPT !.amplitude = Max(@ - CHUNK_SIZE, 0),
                      !.active = (note.amplitude >= CHUNK_SIZE)]

\* the tests of the two Vec::retain calls, lines 971-972
SoundLeft(sound) == sound.cursor < sound.data.len
NoteLeft(note) == note.active

\* the counts of a note after one more chunk
AgeAfterChunk(age) ==
    [on  |-> Min(age.on + 1, MaxAge),
     off |-> IF age.off < 0 THEN age.off ELSE Min(age.off + 1, MaxAge)]

\* note_age after a chunk: the counts of the notes that retain keeps
AgesAfterChunk(ages, notes) ==
    LET Kept(k) == NoteLeft(NoteAfterChunk(notes[k]))
        kept == SelectSeq([k \in DOMAIN notes |-> k], Kept)
    IN  [j \in DOMAIN kept |-> AgeAfterChunk(ages[kept[j]])]

\* one chunk: mix, clamp, play_buffer, retain, sleep (lines 921-974)
Mix ==
    /\ wpc = "mix"
    /\ active_sounds' =
          SelectSeq([k \in DOMAIN active_sounds |-> SoundAfterChunk(active_sounds[k])],
                 SoundLeft)
    /\ active_notes' =
          SelectSeq([k \in DOMAIN active_notes |-> NoteAfterChunk(active_notes[k])],
                 NoteLeft)
    /\ note_age' = AgesAfterChunk(note_age, active_notes)
    /\ out_count' = Counted(out_count + 1)
    /\ wpc' = "drain"
    /\ UNCHANGED << queue, samples, NOTE_COUNTER, nsent, pending, dropped,
                    calls, consumed >>
    /\ UNCHANGED << disk, inputVars, schedVars, pureVars >>

Worker == OpenDevice \/ Receive \/ ReceiveEmpty \/ Mix

\* ---- one cell of a chunk, lines 921-967 ----
I16_MIN == -32768
I16_MAX == 32767

\* mix_buffer[idx] += x: 32-bit addition of 16-bit values; it takes more
\* than 65536 addends to leave the 32-bit range, so the sum is exact here
AddI32(a, b) == a + b

\* (s * i16::MAX as f32) as i16 with s = sin * amplitude * (0.3 / max_notes),
\* the sine being -1, 0 or 1 and the amplitude counted in 1 / RAMP_FRAMES
NoteSample(sin, amplitude, max_notes) ==
    sin * ((amplitude * 3 * I16_MAX) \div (RAMP_FRAMES * 10 * max_notes))

RECURSIVE AddSounds(_, _)
AddSounds(acc, sounds) ==
    IF sounds = << >> THEN acc
    ELSE AddSounds(AddI32(acc, Head(sounds)), Tail(sounds))

RECURSIVE AddNotes(_, _, _)
AddNotes(acc, notes, max_notes) ==
    IF notes = << >> THEN acc
    ELSE AddNotes(AddI32(acc, NoteSample(Head(notes).sin, Head(notes).amplitude,
                                         max_notes)),
                  Tail(notes), max_notes)

\* variant: the cell is cast to i16 (it wraps) instead of being clamped
ClampI16_Wraps(x) == ((x - I16_MIN) % (I16_MAX - I16_MIN + 1)) + I16_MIN

\* s.clamp(i16::MIN as i32, i16::MAX as i32) as i16
ClampI16(x) == IF x < I16_MIN THEN I16_MIN ELSE IF x > I16_MAX THEN I16_MAX ELSE x

\* the sample of final_buffer for one cell
MixSample(sounds, notes) ==
    ClampI16(AddNotes(AddSounds(0, sounds), notes, Max(Len(notes), 1)))

\* the samples the cell can receive
SoundSamples == {I16_MIN, -1, 0, 1, I16_MAX}
NoteParts == [sin : {-1, 0, 1}, amplitude : {0, RAMP_FRAMES}]

SeqsUpTo(S, n) == UNION {[1 .. k -> S] : k \in 0 .. n}

\* one cell of one chunk, for some playing sounds and some active notes
MixFrame ==
    /\ mix_pc = "zeroed"
    /\ mix_pc' = "played"
    /\ \E sounds \in SeqsUpTo(SoundSamples, MaxSounds),
          notes \in SeqsUpTo(NoteParts, MaxNotes) :
          /\ mix_sounds' = sounds
          /\ mix_notes' = notes
          /\ final_sample' = MixSample(sounds, notes)
    /\ UNCHANGED << inputVars, schedVars, audioVars, drawVars, spriteVars, chunkVars >>

\* let mut mix_buffer = vec![0i32; CHUNK_SIZE * 2] of the next chunk
NewChunk ==
    /\ mix_pc = "played"
    /\ mix_pc' = "zeroed"
    /\ mix_sounds' = << >>
    /\ mix_notes' = << >>
    /\ final_sample' = 0
    /\ UNCHANGED << inputVars, schedVars, audioVars, drawVars, spriteVars, chunkVars >>

InitMix ==
    /\ mix_pc = "zeroed"
    /\ mix_sounds = << >>
    /\ mix_notes = << >>
    /\ final_sample = 0

\* ------------------------------------------------------------------------
\* Sprite, lib.rs 626-763
\* ------------------------------------------------------------------------
PIXEL_EMPTY == 32
FG_BLACK == 0
FG_WHITE == 15
\* a glyph code other than PIXEL_EMPTY ('#')
HASH == 35

\* The number of values of a byte.  The machine has 256; the model keeps the
\* structure of the machine's integers (u16 of 2 bytes, u32 of 4, usize and
\* isize of 8) over a smaller byte, so that a whole word stays an integer
\* the model checker can hold.
BYTE == 8
U16_SPAN == BYTE * BYTE
U32_SPAN == U16_SPAN * U16_SPAN
USIZE_SPAN == U32_SPAN * U32_SPAN
ISIZE_MAX == (USIZE_SPAN \div 2) - 1

\* vec![value; count]
Filled(count, value) == [k \in 1 .. count |-> value]

\* Sprite::default(), line 626
Sprite_default ==
    [width |-> 0, height |-> 0, glyphs |-> << >>, colors |-> << >>]

\* Sprite::new, lines 639-646
Sprite_new(width, height) ==
    [width |-> width, height |-> height,
     glyphs |-> Filled(width * height, PIXEL_EMPTY),
     colors |-> Filled(width * height, FG_BLACK)]

\* the test of the four accessors: x < self.width && y < self.height
InGrid(s, x, y) == x < s.width /\ y < s.height

\* y * self.width + x, as an index of a sequence that starts at 1
GridIndex(s, x, y) == y * s.width + x + 1

\* variant: the setter does not test the coordinates, and writes the cell
\* its index falls on
WithGlyph_Unchecked(s, x, y, c) ==
    IF GridIndex(s, x, y) \in DOMAIN s.glyphs
    THEN [s EXCEPT !.glyphs[GridIndex(s, x, y)] = c]
    ELSE s

\* set_glyph, lines 709-713: the sprite after the call
WithGlyph(s, x, y, c) ==
    IF InGrid(s, x, y) THEN [s EXCEPT !.glyphs[GridIndex(s, x, y)] = c] ELSE s

\* set_color, lines 716-720
WithColor(s, x, y, c) ==
    IF InGrid(s, x, y) THEN [s EXCEPT !.colors[GridIndex(s, x, y)] = c] ELSE s

\* get_glyph, lines 723-729
GlyphAt(s, x, y) ==
    IF InGrid(s, x, y) THEN s.glyphs[GridIndex(s, x, y)] ELSE PIXEL_EMPTY

\* get_color, lines 732-738
ColorAt(s, x, y) ==
    IF InGrid(s, x, y) THEN s.colors[GridIndex(s, x, y)] ELSE FG_BLACK

\* ---- wrapped_sample_index, lines 740-748 ----
\* An f32 is modelled as a number of units of 1 / UNIT whose mantissa is below
\* MANTISSA (2^24 in the machine), or one of NaN and the two infinities; the
\* result of an operation is rounded to the nearest such number, a tie to
\* the even mantissa.
UNIT == 16
MANTISSA == 8
F_NAN == 3000000
F_INF == 2000000
F_NEG_INF == -2000000

IsFinite(a) == a \notin {F_NAN, F_INF, F_NEG_INF}

\* the distance of the numbers of magnitude m from their neighbours
RECURSIVE Ulp(_)
Ulp(m) == IF m < MANTISSA THEN 1 ELSE 2 * Ulp(m \div 2)

RoundMagnitude(m) ==
    LET down == (m \div Ulp(m)) * Ulp(m)
        up == down + Ulp(m)
    IN  IF m - down < up - m THEN down
        ELSE IF m - down > up - m THEN up
        ELSE IF (down \div Ulp(m)) % 2 = 0 THEN down
        ELSE up

RoundF(k) == IF k < 0 THEN -RoundMagnitude(-k) ELSE RoundMagnitude(k)

\* f32::floor
FloorF(a) == IF IsFinite(a) THEN (a \div UNIT) * UNIT ELSE a

\* a - b
SubF(a, b) ==
    IF a = F_NAN \/ b = F_NAN THEN F_NAN
    ELSE IF IsFinite(a) /\ IsFinite(b) THEN RoundF(a - b)
    ELSE IF IsFinite(a) THEN (IF b = F_INF THEN F_NEG_INF ELSE F_INF)
    ELSE IF a = b THEN F_NAN
    ELSE a

\* a * (n as f32), n a small usize
MulF(a, n) ==
    IF a = F_NAN THEN F_NAN
    ELSE IF IsFinite(a) THEN RoundF(a * n)
    ELSE IF n = 0 THEN F_NAN
    ELSE a

\* `as isize` of a float without a fraction: NaN gives 0, the cast
\* saturates
AsIsize(a) ==
    IF a = F_NAN THEN 0
    ELSE IF a = F_INF THEN ISIZE_MAX
    ELSE IF a = F_NEG_INF THEN -ISIZE_MAX - 1
    ELSE a \div UNIT

\* variant: the index is not wrapped
RemEuclid_None(i, n) == i

\* isize::rem_euclid for a divisor above 0
RemEuclid(i, n) == i % n

\* one coordinate of wrapped_sample_index, lines 741-744, for a side above 0
WrappedIndex(x, side) ==
    LET fx == SubF(x, FloorF(x))
    IN  RemEuclid(AsIsize(FloorF(MulF(fx, side))), side)

\* sample_glyph, lines 752-755, and sample_color, lines 759-762:
\* rem_euclid panics for a divisor of 0
Sample(s, x, y, of_glyph) ==
    IF s.width = 0 \/ s.height = 0 THEN [ret |-> "panicked", res |-> 0]
    ELSE LET sx == WrappedIndex(x, s.width)
             sy == WrappedIndex(y, s.height)
         IN  [ret |-> "Ok",
              res |-> IF of_glyph THEN GlyphAt(s, sx, sy) ELSE ColorAt(s, sx, sy)]

\* ---- the file format, lines 650-706 ----
RECURSIVE Pow(_, _)
Pow(b, n) == IF n = 0 THEN 1 ELSE b * Pow(b, n - 1)

\* to_le_bytes of an integer of n bytes: the low byte first
ToLe(v, n) == [i \in 1 .. n |-> (v \div Pow(BYTE, i - 1)) % BYTE]

\* from_le_bytes
RECURSIVE FromLe(_)
FromLe(bytes) ==
    IF bytes = << >> THEN 0 ELSE Head(bytes) + BYTE * FromLe(Tail(bytes))

\* `as u32` of a usize
AsU32(v) == v % U32_SPAN

\* for &c in values { f.write_all(&c.to_le_bytes()) }
U16Bytes(values) ==
    [k \in 1 .. (2 * Len(values)) |-> ToLe(values[(k + 1) \div 2], 2)[2 - (k % 2)]]

\* save_to_file, lines 693-706: the bytes written
FileOf(s) ==
    ToLe(AsU32(s.width), 4) \o ToLe(AsU32(s.height), 4)
    \o U16Bytes(s.colors) \o U16Bytes(s.glyphs)

\* the loops of lines 671-682: count values of two bytes each, from offset
\* (the number of bytes before the first)
ReadU16s(buf, offset, count) ==
    [k \in 1 .. count |->
        FromLe(SubSeq(buf, offset + 2 * k - 1, offset + 2 * k))]

\* a product, a sum of usize values; ARITH_PANIC stands for a panic
ARITH_PANIC == -1
Arith(v, overflow_checks) ==
    IF v < USIZE_SPAN THEN v
    ELSE IF overflow_checks THEN ARITH_PANIC
    ELSE v % USIZE_SPAN

\* let expected = 8 + 2 * count * 2, line 664: each operation panics on
\* overflow in a build with overflow checks and wraps in one without
Expected(count, overflow_checks) ==
    LET twice == Arith(2 * count, overflow_checks)
        four == IF twice = ARITH_PANIC THEN ARITH_PANIC
                ELSE Arith(twice * 2, overflow_checks)
    IN  IF four = ARITH_PANIC THEN ARITH_PANIC
        ELSE Arith(8 + four, overflow_checks)

\* from_file, lines 650-690, after the file was read into buf
FromFile(buf, overflow_checks) ==
    IF Len(buf) < 8 THEN [res |-> "Err", why |-> "sprite file too small"]
    ELSE
    LET width == FromLe(SubSeq(buf, 1, 4))
        height == FromLe(SubSeq(buf, 5, 8))
        count == width * height
        expected == Expected(count, overflow_checks)
    IN  IF count >= USIZE_SPAN          \* checked_mul
        THEN [res |-> "Err", why |-> "sprite dimensions overflow"]
        ELSE IF expected = ARITH_PANIC
        THEN [res |-> "panicked", why |-> "arithmetic overflow"]
        ELSE IF Len(buf) < expected
        THEN [res |-> "Err", why |-> "sprite file truncated"]
        \* Vec::with_capacity(count) of values of two bytes
        ELSE IF 2 * count > ISIZE_MAX
        THEN [res |-> "panicked", why |-> "capacity overflow"]
        \* the allocation fails, or buf[offset..offset + 2] is out of range
        ELSE IF Len(buf) < 8 + 4 * count
        THEN [res |-> "panicked", why |-> "allocation or slice index"]
        ELSE [res |-> "Ok",
              sprite |-> [width |-> width, height |-> height,
                          colors |-> ReadU16s(buf, 8, count),
                          glyphs |-> ReadU16s(buf, 8 + 2 * count, count)]]

\* ------------------------------------------------------------------------
\* Drawing, lib.rs 1814-2363
\* ------------------------------------------------------------------------
PIXEL_SOLID == 9608
SPACE == 32
LETTER_A == 65

Cells == 0 .. (ScreenW * ScreenH - 1)

Abs(n) == IF n < 0 THEN -n ELSE n

Point(x, y) == [x |-> x, y |-> y]

OnScreen(p) == p.x >= 0 /\ p.x < ScreenW /\ p.y >= 0 /\ p.y < ScreenH

\* draw_with, lines 1837-1843: the buffer after the call
BufferAfterDraw(buf, p, c) ==
    IF OnScreen(p) THEN [buf EXCEPT ![p.y * ScreenW + p.x] = c] ELSE buf

\* the buffer after draw_with was called for each of points in order
RECURSIVE BufferAfterDraws(_, _, _)
BufferAfterDraws(buf, points, c) ==
    IF points = << >> THEN buf
    ELSE BufferAfterDraws(BufferAfterDraw(buf, Head(points), c), Tail(points), c)

\* for i in sx..=ex { draw_with(i, y) }
Span(sx, ex, y) == [i \in 1 .. (ex - sx + 1) |-> Point(sx + i - 1, y)]

\* ---- draw_line_with, lines 1893-1938 ----
\* variant: the minor axis always advances upwards
MinorStep_AlwaysUp(dx, dy) == 1

\* the direction in which the minor axis advances, lines 1910 and 1928
MinorStep(dx, dy) ==
    IF (dx < 0 /\ dy < 0) \/ (dx > 0 /\ dy > 0) THEN 1 ELSE -1

\* while x < xe { ... }, lines 1905-1918
RECURSIVE LineAlongX(_, _, _, _, _, _, _)
LineAlongX(x, y, xe, px, dx1, dy1, step) ==
    IF x < xe
    THEN LET ny  == IF px < 0 THEN y ELSE y + step
             npx == IF px < 0 THEN px + 2 * dy1 ELSE px + 2 * (dy1 - dx1)
         IN  << Point(x + 1, ny) >>
             \o LineAlongX(x + 1, ny, xe, npx, dx1, dy1, step)
    ELSE << >>

\* while y < ye { ... }, lines 1923-1936
RECURSIVE LineAlongY(_, _, _, _, _, _, _)
LineAlongY(x, y, ye, py, dx1, dy1, step) ==
    IF y < ye
    THEN LET nx  == IF py <= 0 THEN x ELSE x + step
             npy == IF py <= 0 THEN py + 2 * dx1 ELSE py + 2 * (dx1 - dy1)
         IN  << Point(nx, y + 1) >>
             \o LineAlongY(nx, y + 1, ye, npy, dx1, dy1, step)
    ELSE << >>

\* the calls of draw_with made by draw_line_with, in order
LinePoints(x1, y1, x2, y2) ==
    LET dx  == x2 - x1
        dy  == y2 - y1
        dx1 == Abs(dx)
        dy1 == Abs(dy)
    IN  IF dy1 <= dx1
        THEN LET start == IF dx >= 0 THEN Point(x1, y1) ELSE Point(x2, y2)
                 xe    == IF dx >= 0 THEN x2 ELSE x1
             IN  << start >>
                 \o LineAlongX(start.x, start.y, xe, 2 * dy1 - dx1, dx1, dy1,
                               MinorStep(dx, dy))
        ELSE LET start == IF dy >= 0 THEN Point(x1, y1) ELSE Point(x2, y2)
                 ye    == IF dy >= 0 THEN y2 ELSE y1
             IN  << start >>
                 \o LineAlongY(start.x, start.y, ye, 2 * dx1 - dy1, dx1, dy1,
                               MinorStep(dx, dy))

\* ---- fill_triangle_with, lines 1970-2060 ----
\* the three conditional swaps of lines 1989-2000
SortByY(p1, p2, p3) ==
    LET a == IF p1.y > p2.y THEN << p2, p1, p3 >> ELSE << p1, p2, p3 >>
        b == IF a[1].y > a[3].y THEN << a[3], a[2], a[1] >> ELSE a
    IN  IF b[2].y > b[3].y THEN << b[1], b[3], b[2] >> ELSE b

\* while y <= y3 { ... }, lines 2043-2059
RECURSIVE TriangleBottom(_, _, _, _, _)
TriangleBottom(t1x, t2x, y, y3, k) ==
    IF y <= y3
    THEN Span(Min(t1x, t2x), Max(t1x, t2x), y)
         \o TriangleBottom(IF k.changed1 THEN t1x + k.signx1 ELSE t1x,
                           IF k.changed2 THEN t2x + k.signx2 ELSE t2x,
                           y + 1, y3, k)
    ELSE << >>

\* while i < dx1 { ... }, lines 2021-2034, followed by lines 2037-2059
RECURSIVE TriangleTop(_, _, _, _, _, _, _)
TriangleTop(i, t1x, t2x, y, k, v, kb) ==
    IF i < k.dx1
    THEN Span(Min(t1x, t2x), Max(t1x, t2x), y)
         \o TriangleTop(i + 1,
                        IF k.changed1 THEN t1x + k.signx1 ELSE t1x,
                        IF k.changed2 THEN t2x + k.signx2 ELSE t2x,
                        y + 1, k, v, kb)
    ELSE TriangleBottom(v[2].x, t2x, y, v[3].y, kb)

\* the calls of draw_with made by fill_triangle_with, in order
TrianglePoints(p1, p2, p3) ==
    LET v  == SortByY(p1, p2, p3)
        k  == [dx1 |-> IF v[1].y # v[2].y THEN Abs(v[2].x - v[1].x) ELSE 0,
               signx1 |-> IF v[2].x - v[1].x < 0 THEN -1 ELSE 1,
               signx2 |-> IF v[3].x - v[1].x < 0 THEN -1 ELSE 1,
               changed1 |-> (v[2].y - v[1].y) > Abs(v[2].x - v[1].x),
               changed2 |-> (v[3].y - v[1].y) > Abs(v[3].x - v[1].x)]
        kb == [signx1 |-> IF v[3].x - v[2].x < 0 THEN -1 ELSE 1,
               signx2 |-> k.signx2,
               changed1 |-> (v[3].y - v[2].y) > Abs(v[3].x - v[2].x),
               changed2 |-> k.changed2]
    IN  TriangleTop(0, v[1].x, v[1].x, v[1].y, k, v, kb)

\* ---- draw_filled_model, lines 2237-2320, for r = 0 and s = 1 ----
\* transformed: (px * cos_r - py * sin_r) * s + x with cos_r = 1, sin_r = 0
Transformed(model_coords, x, y) ==
    [i \in DOMAIN model_coords |-> Point(model_coords[i].x + x, model_coords[i].y + y)]

RECURSIVE MinY(_)
MinY(verts) ==
    IF Len(verts) = 1 THEN verts[1].y ELSE Min(verts[1].y, MinY(Tail(verts)))

RECURSIVE MaxY(_)
MaxY(verts) ==
    IF Len(verts) = 1 THEN verts[1].y ELSE Max(verts[1].y, MaxY(Tail(verts)))

\* variant: the last vertex is not joined to the first
NextVertex_Open(i, verts) == IF i = verts THEN i ELSE i + 1

\* (i + 1) % verts, for vertices numbered from 1
NextVertex(i, verts) == (i % verts) + 1

\* the edge from vertex i crosses the sample line y_scan + 0.5, line 2290;
\* the coordinates are whole numbers, so the comparison is made on doubles
Crosses(t, i, y_scan) ==
    LET y1 == t[i].y
        y2 == t[NextVertex(i, Len(t))].y
    IN  /\ y1 # y2
        /\ 2 * y_scan + 1 >= 2 * Min(y1, y2)
        /\ 2 * y_scan + 1 < 2 * Max(y1, y2)

\* xi of lines 2291-2292 as the fraction num / den with den > 0
Intersection(t, i, y_scan) ==
    LET p  == t[i]
        q  == t[NextVertex(i, Len(t))]
        a  == IF p.y < q.y THEN p ELSE q
        b  == IF p.y < q.y THEN q ELSE p
        den == 2 * (b.y - a.y)
    IN  [num |-> a.x * den + (2 * y_scan + 1 - 2 * a.y) * (b.x - a.x), den |-> den]

\* the intersections pushed for edges i .. verts, lines 2276-2295
RECURSIVE Intersections(_, _, _)
Intersections(t, i, y_scan) ==
    IF i > Len(t) THEN << >>
    ELSE (IF Crosses(t, i, y_scan) THEN << Intersection(t, i, y_scan) >> ELSE << >>)
         \o Intersections(t, i + 1, y_scan)

FracLeq(a, b) == a.num * b.den <= b.num * a.den

\* intersects.sort_by(partial_cmp), line 2301
RECURSIVE InsertSorted(_, _)
InsertSorted(sorted, e) ==
    IF sorted = << >> THEN << e >>
    ELSE IF FracLeq(Head(sorted), e)
    THEN << Head(sorted) >> \o InsertSorted(Tail(sorted), e)
    ELSE << e >> \o sorted

RECURSIVE SortFracs(_)
SortFracs(fracs) ==
    IF fracs = << >> THEN << >>
    ELSE InsertSorted(SortFracs(Tail(fracs)), Head(fracs))

\* x.floor() and x.ceil() of a fraction
Floor(f) == f.num \div f.den
Ceil(f) == -((-f.num) \div f.den)

\* while k + 1 < intersects.len() { ... k += 2 }, lines 2303-2318
RECURSIVE PairSpans(_, _)
PairSpans(sorted, y_scan) ==
    IF Len(sorted) < 2 THEN << >>
    ELSE Span(Ceil(sorted[1]), Floor(sorted[2]), y_scan)
         \o PairSpans(Tail(Tail(sorted)), y_scan)

\* for y_scan in y_start..=y_end { ... }: the calls of draw_with
RECURSIVE ModelRows(_, _, _)
ModelRows(t, y_scan, y_end) ==
    IF y_scan > y_end THEN << >>
    ELSE PairSpans(SortFracs(Intersections(t, 1, y_scan)), y_scan)
         \o ModelRows(t, y_scan + 1, y_end)

\* the calls of draw_with made by draw_filled_model, in order
ModelPoints(model_coords, x, y) ==
    IF Len(model_coords) < 3 THEN << >>
    ELSE LET t == Transformed(model_coords, x, y)
         IN  ModelRows(t, MinY(t), MaxY(t))

\* the number of intersections on each scanline, first row first
ModelCrossings(model_coords, x, y) ==
    IF Len(model_coords) < 3 THEN << >>
    ELSE LET t == Transformed(model_coords, x, y)
         IN  [r \in 1 .. (MaxY(t) - MinY(t) + 1) |->
                 Len(Intersections(t, 1, MinY(t) + r - 1))]

\* ---- draw_string_with / draw_string_alpha_with, lines 1863-1885 ----
PANIC == -1

\* idx = (y as usize) * screen_width + (x as usize + i) and the bounds check
\* of window_buffer[idx]: a build with overflow checks panics on a negative
\* coordinate, a build without them wraps modulo 2^64
StringIndex(x, y, i, overflow_checks) ==
    LET idx == y * ScreenW + x + i
    IN  IF overflow_checks /\ (x < 0 \/ y < 0) THEN PANIC
        ELSE IF idx \in Cells THEN idx
        ELSE PANIC

\* the buffer (or PANIC) after the characters i .. of text were written;
\* alpha: spaces are skipped
RECURSIVE BufferAfterString(_, _, _, _, _, _, _)
BufferAfterString(buf, x, y, text, i, alpha, overflow_checks) ==
    IF i > Len(text) THEN [res |-> "drawn", buf |-> buf]
    ELSE IF alpha /\ text[i] = SPACE
    THEN BufferAfterString(buf, x, y, text, i + 1, alpha, overflow_checks)
    ELSE LET idx == StringIndex(x, y, i - 1, overflow_checks)
         IN  IF idx = PANIC THEN [res |-> "panicked", buf |-> buf]
             ELSE BufferAfterString([buf EXCEPT ![idx] = text[i]], x, y, text,
                                    i + 1, alpha, overflow_checks)

\* the Attributes after the same writes: col in each cell written
RECURSIVE AttrAfterString(_, _, _, _, _, _, _, _)
AttrAfterString(attr, x, y, text, i, alpha, overflow_checks, col) ==
    IF i > Len(text) THEN attr
    ELSE IF alpha /\ text[i] = SPACE
    THEN AttrAfterString(attr, x, y, text, i + 1, alpha, overflow_checks, col)
    ELSE LET idx == StringIndex(x, y, i - 1, overflow_checks)
         IN  IF idx = PANIC THEN attr
             ELSE AttrAfterString([attr EXCEPT ![idx] = col], x, y, text,
                                  i + 1, alpha, overflow_checks, col)

\* the cells a string call addresses: one to the right for each character
StringPoints(x, y, text, alpha) ==
    LET all == [i \in DOMAIN text |-> Point(x + i - 1, y)]
        Written(p) == ~(alpha /\ text[p.x - x + 1] = SPACE)
    IN  SelectSeq(all, Written)

\* ---- the calls ----
XCoords == -1 .. ScreenW
YCoords == -1 .. ScreenH
Texts == SeqsUpTo({SPACE, LETTER_A}, MaxText)
TriCoords == {0, 2, 4}
ModelPointsIn ==
    {Point(0, 0), Point(4, 0), Point(2, 1), Point(0, 3), Point(2, 3), Point(4, 3)}
ModelOffsets == {-1, 0}

\* a drawing call that goes through draw_with
DrawCall(op, points) ==
    /\ draw_pc = "ready"
    /\ draw_pc' = "drawn"
    /\ draw_op' = op
    /\ addressed' = points
    /\ window_buffer' = BufferAfterDraws(window_buffer, points, PIXEL_SOLID)
    /\ window_attr' = BufferAfterDraws(window_attr, points, FG_WHITE)
    /\ UNCHANGED << inputVars, schedVars, audioVars, mixVars, spriteVars, chunkVars >>

draw_with ==
    /\ draw_pc = "ready"
    /\ \E x \in XCoords, y \in YCoords :
        /\ DrawCall([op |-> "draw_with", x |-> x, y |-> y], << Point(x, y) >>)
        /\ crossings' = << >>

draw_line_with ==
    /\ draw_pc = "ready"
    /\ \E x1 \in XCoords, y1 \in YCoords, x2 \in XCoords, y2 \in YCoords :
        /\ DrawCall([op |-> "draw_line_with", p1 |-> Point(x1, y1),
                     p2 |-> Point(x2, y2)],
                    LinePoints(x1, y1, x2, y2))
        /\ crossings' = << >>

fill_triangle_with ==
    /\ draw_pc = "ready"
    /\ \E x1 \in TriCoords, y1 \in TriCoords, x2 \in TriCoords, y2 \in TriCoords,
       x3 \in TriCoords, y3 \in TriCoords :
        /\ DrawCall([op |-> "fill_triangle_with", p1 |-> Point(x1, y1),
                     p2 |-> Point(x2, y2), p3 |-> Point(x3, y3)],
                    TrianglePoints(Point(x1, y1), Point(x2, y2), Point(x3, y3)))
        /\ crossings' = << >>

draw_filled_model ==
    /\ draw_pc = "ready"
    /\ \E model_coords \in SeqsUpTo(ModelPointsIn, MaxVerts), off \in ModelOffsets :
        /\ DrawCall([op |-> "draw_filled_model", model_coords |-> model_coords,
                     x |-> off, y |-> off],
                    ModelPoints(model_coords, off, off))
        /\ crossings' = ModelCrossings(model_coords, off, off)

\* draw_string_with (alpha FALSE) and draw_string_alpha_with (alpha TRUE)
draw_string_with ==
    /\ draw_pc = "ready"
    /\ \E x \in XCoords, y \in YCoords, text \in Texts, alpha \in BOOLEAN,
       overflow_checks \in BOOLEAN :
        LET after == BufferAfterString(window_buffer, x, y, text, 1, alpha,
                                       overflow_checks)
        IN  /\ draw_pc = "ready"
            /\ draw_pc' = after.res
            /\ draw_op' = [op |-> IF alpha THEN "draw_string_alpha_with"
                                  ELSE "draw_string_with",
                           x |-> x, y |-> y, text |-> text]
            /\ addressed' = StringPoints(x, y, text, alpha)
            /\ window_buffer' = after.buf
            /\ window_attr' = AttrAfterString(window_attr, x, y, text, 1, alpha,
                                               overflow_checks, FG_WHITE)
            /\ crossings' = << >>
            /\ UNCHANGED << inputVars, schedVars, audioVars, mixVars, spriteVars, chunkVars >>

\* ---- clip, lines 1816-1829, and fill_rect_with, lines 2085-2102 ----
\* one coordinate after clip, for a screen of the given side
Clamped(v, side) ==
    LET low == IF v < 0 THEN 0 ELSE v
    IN  IF low >= side THEN side ELSE low

Clip(p) == Point(Clamped(p.x, ScreenW), Clamped(p.y, ScreenH))

\* for x in x1..x2 { for y in y1..y2 { draw_with(x, y) } }
RectPoints(a, b) ==
    LET w == IF b.x > a.x THEN b.x - a.x ELSE 0
        h == IF b.y > a.y THEN b.y - a.y ELSE 0
    IN  [k \in 1 .. (w * h) |-> Point(a.x + ((k - 1) \div h), a.y + ((k - 1) % h))]

clip ==
    \E x \in XCoords, y \in YCoords :
        /\ draw_pc = "ready"
        /\ draw_pc' = "drawn"
        /\ draw_op' = [op |-> "clip", x |-> x, y |-> y, res |-> Clip(Point(x, y))]
        /\ UNCHANGED << window_buffer, window_attr, addressed, crossings >>
        /\ UNCHANGED << inputVars, schedVars, audioVars, mixVars, spriteVars, chunkVars >>

fill_rect ==
    \E x1 \in XCoords, y1 \in YCoords, x2 \in XCoords, y2 \in YCoords :
        /\ DrawCall([op |-> "fill_rect", p1 |-> Point(x1, y1), p2 |-> Point(x2, y2)],
                    RectPoints(Clip(Point(x1, y1)), Clip(Point(x2, y2))))
        /\ crossings' = << >>

\* ---- draw_circle_with, lines 2110-2136, fill_circle_with, lines 2144-2172 ----
\* variant: the point (xc - y, yc + x) is left out
Octants_Seven(xc, yc, x, y) ==
    << Point(xc - x, yc - y), Point(xc - y, yc - x), Point(xc + y, yc - x),
       Point(xc + x, yc - y), Point(xc - x, yc + y),
       Point(xc + y, yc + x), Point(xc + x, yc + y) >>

\* the eight draw_with calls of one iteration, lines 2119-2126
Octants(xc, yc, x, y) ==
    << Point(xc - x, yc - y), Point(xc - y, yc - x), Point(xc + y, yc - x),
       Point(xc + x, yc - y), Point(xc - x, yc + y), Point(xc - y, yc + x),
       Point(xc + y, yc + x), Point(xc + x, yc + y) >>

\* the four draw_line calls of one iteration, lines 2158-2161
CircleSpans(xc, yc, x, y) ==
    Span(xc - x, xc + x, yc - y) \o Span(xc - y, xc + y, yc - x)
    \o Span(xc - x, xc + x, yc + y) \o Span(xc - y, xc + y, yc + x)

\* the decision variable and y after an iteration, lines 2128-2133
CircleP(x, y, p) == IF p < 0 THEN p + 4 * x + 6 ELSE p + 4 * (x - y) + 10
CircleY(y, p) == IF p < 0 THEN y ELSE y - 1

\* while y >= x { ... x += 1 }: the draw_with calls from the state (x, y, p) on
RECURSIVE CircleLoop(_, _, _, _, _, _)
CircleLoop(xc, yc, x, y, p, filled) ==
    IF y >= x
    THEN (IF filled THEN CircleSpans(xc, yc, x, y) ELSE Octants(xc, yc, x, y))
         \o CircleLoop(xc, yc, x + 1, CircleY(y, p), CircleP(x, y, p), filled)
    ELSE << >>

\* if r == 0 { return }; x = 0, y = r, p = 3 - 2 * r
CirclePoints(xc, yc, r, filled) ==
    IF r = 0 THEN << >> ELSE CircleLoop(xc, yc, 0, r, 3 - 2 * r, filled)

\* the buffer after draw_with was called for each of points with one glyph:
\* a cell holds the glyph when one of the calls addresses it
BufferAfterCalls(buf, points, c) ==
    [cell \in Cells |->
        IF \E k \in DOMAIN points :
              OnScreen(points[k]) /\ points[k].y * ScreenW + points[k].x = cell
        THEN c ELSE buf[cell]]

\* a drawing call that makes many draw_with calls with one glyph and colour
ManyDrawCalls(op, points) ==
    /\ draw_pc' = "drawn"
    /\ draw_op' = op
    /\ addressed' = points
    /\ window_buffer' = BufferAfterCalls(window_buffer, points, PIXEL_SOLID)
    /\ window_attr' = BufferAfterCalls(window_attr, points, FG_WHITE)
    /\ crossings' = << >>
    /\ UNCHANGED << inputVars, schedVars, audioVars, mixVars, spriteVars, chunkVars >>

Radii == -1 .. MaxRadius

draw_circle_with ==
    /\ draw_pc = "ready"
    /\ \E xc \in XCoords, yc \in YCoords, r \in Radii :
        ManyDrawCalls([op |-> "draw_circle_with", xc |-> xc, yc |-> yc, r |-> r],
                      CirclePoints(xc, yc, r, FALSE))

fill_circle_with ==
    /\ draw_pc = "ready"
    /\ \E xc \in XCoords, yc \in YCoords, r \in Radii :
        ManyDrawCalls([op |-> "fill_circle_with", xc |-> xc, yc |-> yc, r |-> r],
                      CirclePoints(xc, yc, r, TRUE))

\* ---- draw_sprite, lines 2323-2333 ----
\* variant: every glyph is copied
Opaque_Always(glyph) == TRUE

\* if glyph != PIXEL_EMPTY, line 2327
Opaque(glyph) == glyph # PIXEL_EMPTY

\* the glyphs and the Attributes of the buffer after the calls of draw_with
\* made for the sprite cells from the k-th on, in the order of the loops:
\* for i in 0..width, for j in 0..height
RECURSIVE BufferAfterSprite(_, _, _, _, _, _)
BufferAfterSprite(buf, attr, s, x, y, k) ==
    IF k > s.width * s.height THEN [buf |-> buf, attr |-> attr]
    ELSE LET at == [i |-> (k - 1) \div s.height, j |-> (k - 1) % s.height]
             glyph == GlyphAt(s, at.i, at.j)
             p == Point(x + at.i, y + at.j)
         IN  IF Opaque(glyph)
             THEN BufferAfterSprite(BufferAfterDraw(buf, p, glyph),
                                    BufferAfterDraw(attr, p, ColorAt(s, at.i, at.j)),
                                    s, x, y, k + 1)
             ELSE BufferAfterSprite(buf, attr, s, x, y, k + 1)

\* the cells draw_sprite addresses
SpritePoints(s, x, y) ==
    LET all == [k \in 1 .. (s.width * s.height) |->
                   Point(x + ((k - 1) \div s.height), y + ((k - 1) % s.height))]
        Copied(p) == Opaque(GlyphAt(s, p.x - x, p.y - y))
    IN  SelectSeq(all, Copied)

\* destinations that leave the sprite partly off the buffer on either side,
\* and inside it
BlitXs == {-1, 0, 1, ScreenW - 1}
BlitYs == {-1, 0, 1, ScreenH - 1}

draw_sprite ==
    \E x \in BlitXs, y \in BlitYs :
        LET after == BufferAfterSprite(window_buffer, window_attr, sprite, x, y, 1)
        IN  /\ draw_pc = "ready"
            /\ draw_pc' = "drawn"
            /\ draw_op' = [op |-> "draw_sprite", x |-> x, y |-> y]
            /\ addressed' = SpritePoints(sprite, x, y)
            /\ window_buffer' = after.buf
            /\ window_attr' = after.attr
            /\ crossings' = << >>
            /\ sprite_op' = [op |-> "draw_sprite"]
            /\ UNCHANGED << sprite, sprite_sets, file, loaded >>
            /\ UNCHANGED << inputVars, schedVars, audioVars, mixVars, chunkVars >>

\* ---- draw_partial_sprite, lines 2343-2362 ----
\* i + ox and j + oy, lines 2355 and 2357: a sum of usize values
SourceIndex(i, o, overflow_checks) == Arith(i + o, overflow_checks)

\* the buffers, and the destinations written, after the iterations from the
\* k-th on of: for i in 0..w, for j in 0..h
RECURSIVE PartialAfter(_, _, _, _, _, _, _, _, _, _, _, _)
PartialAfter(buf, attr, points, s, x, y, ox, oy, w, h, overflow_checks, k) ==
    IF k > w * h
    THEN [res |-> "drawn", buf |-> buf, attr |-> attr, points |-> points]
    ELSE LET i == (k - 1) \div h
             j == (k - 1) % h
             sx == SourceIndex(i, ox, overflow_checks)
             sy == SourceIndex(j, oy, overflow_checks)
             p == Point(x + i, y + j)
         IN  IF sx = ARITH_PANIC \/ sy = ARITH_PANIC
             THEN [res |-> "panicked", buf |-> buf, attr |-> attr,
                   points |-> points]
             ELSE IF Opaque(GlyphAt(s, sx, sy))
             THEN PartialAfter(BufferAfterDraw(buf, p, GlyphAt(s, sx, sy)),
                               BufferAfterDraw(attr, p, ColorAt(s, sx, sy)),
                               Append(points, p),
                               s, x, y, ox, oy, w, h, overflow_checks, k + 1)
             ELSE PartialAfter(buf, attr, points, s, x, y, ox, oy, w, h,
                               overflow_checks, k + 1)

\* offsets inside the sprite, past it and at the largest usize
PartialOffsets == {0, 1, USIZE_SPAN - 1}
PartialRowOffsets == {0, 1}
\* region sizes up to one more than the largest sprite
PartialSizes == 0 .. (MaxSpriteDim + 1)
PartialXs == {-1, 0}
PartialYs == {0}

draw_partial_sprite ==
    /\ draw_pc = "ready"
    /\ \E x \in PartialXs, y \in PartialYs, ox \in PartialOffsets,
          oy \in PartialRowOffsets, w \in PartialSizes, h \in PartialSizes,
          overflow_checks \in BOOLEAN :
        LET after == PartialAfter(window_buffer, window_attr, << >>, sprite,
                                  x, y, ox, oy, w, h, overflow_checks, 1)
        IN  /\ draw_pc' = after.res
            /\ draw_op' = [op |-> "draw_partial_sprite", x |-> x, y |-> y,
                           ox |-> ox, oy |-> oy, w |-> w, h |-> h,
                           overflow_checks |-> overflow_checks]
            /\ addressed' = after.points
            /\ window_buffer' = after.buf
            /\ window_attr' = after.attr
            /\ crossings' = << >>
            /\ sprite_op' = [op |-> "draw_partial_sprite"]
            /\ UNCHANGED << sprite, sprite_sets, file, loaded >>
            /\ UNCHANGED << inputVars, schedVars, audioVars, mixVars, chunkVars >>

\* ---- draw_line, lines 1888-1890, with the arithmetic of i32 ----
\* the number of values of an i32, scaled down so that the longest line has
\* that many points
I32_SPAN == BYTE * BYTE
I32_MIN == -(I32_SPAN \div 2)
I32_MAX == (I32_SPAN \div 2) - 1

\* an i32 operation in a build without overflow checks
WrapI32(v) == ((v - I32_MIN) % I32_SPAN) + I32_MIN

\* i32::abs in a build without overflow checks: the minimum is its own value
AbsI32(v) == IF v = I32_MIN THEN I32_MIN ELSE Abs(v)

\* lines 1894-1899 in a build with overflow checks: one of the operations
\* panics, before the first draw_with call
LineOverflows(x1, y1, x2, y2) ==
    LET fits(v) == v >= I32_MIN /\ v <= I32_MAX
        dx  == x2 - x1
        dy  == y2 - y1
        dx1 == Abs(dx)
        dy1 == Abs(dy)
    IN  \/ ~fits(dx) \/ ~fits(dy)
        \/ ~fits(dx1) \/ ~fits(dy1)
        \/ ~fits(2 * dy1) \/ ~fits(2 * dy1 - dx1)
        \/ ~fits(2 * dx1) \/ ~fits(2 * dx1 - dy1)

\* while x < xe { ... }, lines 1905-1918, every operation wrapping
RECURSIVE WrappingAlongX(_, _, _, _, _, _, _)
WrappingAlongX(x, y, xe, px, dx1, dy1, step) ==
    IF x < xe
    THEN LET ny  == IF px < 0 THEN y ELSE WrapI32(y + step)
             npx == IF px < 0 THEN WrapI32(px + WrapI32(2 * dy1))
                    ELSE WrapI32(px + WrapI32(2 * WrapI32(dy1 - dx1)))
         IN  << Point(x + 1, ny) >>
             \o WrappingAlongX(x + 1, ny, xe, npx, dx1, dy1, step)
    ELSE << >>

\* while y < ye { ... }, lines 1923-1936, every operation wrapping
RECURSIVE WrappingAlongY(_, _, _, _, _, _, _)
WrappingAlongY(x, y, ye, py, dx1, dy1, step) ==
    IF y < ye
    THEN LET nx  == IF py <= 0 THEN x ELSE WrapI32(x + step)
             npy == IF py <= 0 THEN WrapI32(py + WrapI32(2 * dx1))
                    ELSE WrapI32(py + WrapI32(2 * WrapI32(dx1 - dy1)))
         IN  << Point(nx, y + 1) >>
             \o WrappingAlongY(nx, y + 1, ye, npy, dx1, dy1, step)
    ELSE << >>

\* the calls of draw_with made by draw_line_with in a build without overflow
\* checks, in order
WrappingLinePoints(x1, y1, x2, y2) ==
    LET dx  == WrapI32(x2 - x1)
        dy  == WrapI32(y2 - y1)
        dx1 == AbsI32(dx)
        dy1 == AbsI32(dy)
        px  == WrapI32(WrapI32(2 * dy1) - dx1)
        py  == WrapI32(WrapI32(2 * dx1) - dy1)
    IN  IF dy1 <= dx1
        THEN LET start == IF dx >= 0 THEN Point(x1, y1) ELSE Point(x2, y2)
                 xe    == IF dx >= 0 THEN x2 ELSE x1
             IN  << start >>
                 \o WrappingAlongX(start.x, start.y, xe, px, dx1, dy1,
                                   MinorStep(dx, dy))
        ELSE LET start == IF dy >= 0 THEN Point(x1, y1) ELSE Point(x2, y2)
                 ye    == IF dy >= 0 THEN y2 ELSE y1
             IN  << start >>
                 \o WrappingAlongY(start.x, start.y, ye, py, dx1, dy1,
                                   MinorStep(dx, dy))

\* the outcome of draw_line on buf: a panic before anything is drawn, or the
\* buffer after the draw_with calls
LineOutcome(buf, x1, y1, x2, y2, overflow_checks) ==
    IF overflow_checks /\ LineOverflows(x1, y1, x2, y2)
    THEN [res |-> "panicked", points |-> << >>, buf |-> buf]
    ELSE LET points == IF overflow_checks THEN LinePoints(x1, y1, x2, y2)
                       ELSE WrappingLinePoints(x1, y1, x2, y2)
         IN  [res |-> "drawn", points |-> points,
              buf |-> BufferAfterCalls(buf, points, PIXEL_SOLID)]

\* endpoints on the screen and at the smallest i32
WideXs == {I32_MIN} \cup (0 .. ScreenW - 1)
WideYs == {I32_MIN} \cup (0 .. ScreenH - 1)

draw_line ==
    /\ draw_pc = "ready"
    /\ \E x1 \in WideXs, y1 \in WideYs, x2 \in WideXs, y2 \in WideYs,
          overflow_checks \in BOOLEAN :
        LET after == LineOutcome(window_buffer, x1, y1, x2, y2, overflow_checks)
        IN  /\ draw_pc' = after.res
            /\ draw_op' = [op |-> "draw_line", p1 |-> Point(x1, y1),
                           p2 |-> Point(x2, y2),
                           overflow_checks |-> overflow_checks]
            /\ addressed' = after.points
            /\ window_buffer' = after.buf
            /\ window_attr' = BufferAfterCalls(window_attr, after.points, FG_WHITE)
            /\ crossings' = << >>
            /\ UNCHANGED << inputVars, schedVars, audioVars, mixVars,
                            spriteVars, chunkVars >>

\* construct_console, lines 1490-1493: every cell is CHAR_INFO::default()
InitDraw ==
    /\ window_buffer = [cell \in Cells |-> 0]
    /\ window_attr = [cell \in Cells |-> 0]
    /\ draw_pc = "ready"
    /\ draw_op = [op |-> "none"]
    /\ addressed = << >>
    /\ crossings = << >>

\* ---- a PlayingSound through the loop of lines 923-932 ----
\* the data of a sample: any samples, here of two values
SoundData == SeqsUpTo({-3, 5}, MaxData)

\* PlaySample, lines 863-869: PlayingSound { data: data.clone(), cursor: 0 }
start_sound ==
    \E data \in SoundData :
        /\ chunk_sound.data = << >>
        /\ chunk_i = 0
        /\ data # << >>
        /\ chunk_sound' = [data |-> data, cursor |-> 0]
        /\ UNCHANGED << mix_buffer, chunk_i >>
        /\ UNCHANGED << inputVars, schedVars, audioVars, mixVars, drawVars, spriteVars >>

\* whether the iteration mixes: if sound.cursor + 1 < sound.data.len()
HasFrame(sound) == sound.cursor + 1 < Len(sound.data)

\* mix_buffer after iteration i, lines 925-929 (sequences start at 1)
MixedInto(mix, sound, i) ==
    IF HasFrame(sound)
    THEN [mix EXCEPT ![2 * i + 1] = @ + sound.data[sound.cursor + 1],
                     ![2 * i + 2] = @ + sound.data[sound.cursor + 2]]
    ELSE mix

\* sound.cursor += 2, line 930
CursorAfter(sound) == IF HasFrame(sound) THEN sound.cursor + 2 ELSE sound.cursor

\* one iteration of for i in 0..CHUNK_SIZE
mix_sound_frame ==
    /\ chunk_sound.data # << >>
    /\ chunk_i < ChunkFrames
    /\ mix_buffer' = MixedInto(mix_buffer, chunk_sound, chunk_i)
    /\ chunk_sound' = [chunk_sound EXCEPT !.cursor = CursorAfter(chunk_sound)]
    /\ chunk_i' = chunk_i + 1
    /\ UNCHANGED << inputVars, schedVars, audioVars, mixVars, drawVars, spriteVars >>

\* the chunk is played and the next one starts: a new mix_buffer of zeroes,
\* line 921, for the sound that active_sounds.retain keeps, line 970
next_chunk ==
    /\ chunk_i = ChunkFrames
    /\ chunk_sound.cursor < Len(chunk_sound.data)
    /\ mix_buffer' = Filled(2 * ChunkFrames, 0)
    /\ chunk_i' = 0
    /\ UNCHANGED chunk_sound
    /\ UNCHANGED << inputVars, schedVars, audioVars, mixVars, drawVars, spriteVars >>

\* ---- Sprite: the calls ----
SpriteSides == {0, 1, MaxSpriteDim}
SpriteDims ==
    (SpriteSides \X SpriteSides)
    \cup {<< U32_SPAN, 0 >>, << 0, U32_SPAN >>, << U32_SPAN + 1, 0 >>}
SpriteCoords == 0 .. MaxSpriteDim
SpriteGlyphs == {PIXEL_EMPTY, HASH}
SpriteColors == {FG_BLACK, FG_WHITE}

Built == sprite_op.op # "none"
\* a sprite is built with new and the setters, and then used by one call
Building == sprite_op.op \in {"new", "set_glyph", "set_color"}
Editable == Building /\ sprite_sets < MaxSets

SpriteCall(op, after) ==
    /\ sprite_op' = op
    /\ sprite' = after
    /\ UNCHANGED << file, loaded >>
    /\ UNCHANGED << inputVars, schedVars, audioVars, mixVars, drawVars, chunkVars >>

new ==
    /\ ~Built
    /\ \E d \in SpriteDims :
        /\ SpriteCall([op |-> "new", width |-> d[1], height |-> d[2]],
                      Sprite_new(d[1], d[2]))
        /\ sprite_sets' = 0

set_glyph ==
    /\ Editable
    /\ \E x \in SpriteCoords, y \in SpriteCoords, c \in SpriteGlyphs :
        /\ SpriteCall([op |-> "set_glyph", x |-> x, y |-> y, c |-> c],
                      WithGlyph(sprite, x, y, c))
        /\ sprite_sets' = sprite_sets + 1

set_color ==
    /\ Editable
    /\ \E x \in SpriteCoords, y \in SpriteCoords, c \in SpriteColors :
        /\ SpriteCall([op |-> "set_color", x |-> x, y |-> y, c |-> c],
                      WithColor(sprite, x, y, c))
        /\ sprite_sets' = sprite_sets + 1

get_glyph ==
    /\ Building
    /\ \E x \in SpriteCoords, y \in SpriteCoords :
        /\ SpriteCall([op |-> "get_glyph", x |-> x, y |-> y,
                       res |-> GlyphAt(sprite, x, y)], sprite)
        /\ UNCHANGED sprite_sets

get_color ==
    /\ Building
    /\ \E x \in SpriteCoords, y \in SpriteCoords :
        /\ SpriteCall([op |-> "get_color", x |-> x, y |-> y,
                       res |-> ColorAt(sprite, x, y)], sprite)
        /\ UNCHANGED sprite_sets

\* coordinates below, in and above [0, 1), among them the fraction above
\* -1 / UNIT that rounds to 1
SampleXs ==
    {F_NAN, F_INF, F_NEG_INF, -UNIT - 4, -UNIT, -6, -1, 0, 5, 14, UNIT, UNIT + 8}
SampleYs == {-1, UNIT + 4}


sample_glyph ==
    /\ Building
    /\ \E x \in SampleXs, y \in SampleYs :
        LET got == Sample(sprite, x, y, TRUE)
        IN  /\ SpriteCall([op |-> "sample_glyph", x |-> x, y |-> y,
                           ret |-> got.ret, res |-> got.res], sprite)
            /\ UNCHANGED sprite_sets

sample_color ==
    /\ Building
    /\ \E x \in SampleXs, y \in SampleYs :
        LET got == Sample(sprite, x, y, FALSE)
        IN  /\ SpriteCall([op |-> "sample_color", x |-> x, y |-> y,
                           ret |-> got.ret, res |-> got.res], sprite)
            /\ UNCHANGED sprite_sets

\* save_to_file: File::create fails and nothing is written, or the file
\* holds the sprite's bytes
save_to_file ==
    /\ Building
    /\ \E created \in BOOLEAN :
        /\ sprite_op' = [op |-> "save_to_file",
                         res |-> IF created THEN "Ok" ELSE "Err"]
        /\ file' = IF created THEN FileOf(sprite) ELSE file
        /\ UNCHANGED << sprite, sprite_sets, loaded >>
        /\ UNCHANGED << inputVars, schedVars, audioVars, mixVars, drawVars, chunkVars >>

\* from_file on the bytes of the file, in a build with or without overflow
\* checks
from_file ==
    \E overflow_checks \in BOOLEAN :
        /\ loaded.res = "none"
        /\ loaded' = FromFile(file, overflow_checks)
        /\ UNCHANGED << sprite, sprite_op, sprite_sets, file >>
        /\ UNCHANGED << inputVars, schedVars, audioVars, mixVars, drawVars, chunkVars >>

\* the header fields of the files read: small ones, and ones around half of
\* the range of a u32 and at its end
HeaderFields ==
    {0, 1, 2, (U32_SPAN \div 2) - 1, U32_SPAN \div 2, (U32_SPAN \div 2) + 1,
     U32_SPAN - 1}

\* the first len bytes of a file with the header (width, height) followed by
\* bytes of one value
FileBytes(width, height, fill, len) ==
    SubSeq(ToLe(width, 4) \o ToLe(height, 4) \o Filled(len, fill), 1, len)

\* some program writes the file that from_file will read
write_file ==
    \E width \in HeaderFields, height \in HeaderFields, fill \in {0, BYTE - 1},
       len \in 0 .. MaxFileLen :
        /\ ~Built
        /\ file = << >>
        /\ loaded.res = "none"
        /\ file' = FileBytes(width, height, fill, len)
        /\ UNCHANGED << sprite, sprite_op, sprite_sets, loaded >>
        /\ UNCHANGED << inputVars, schedVars, audioVars, mixVars, drawVars, chunkVars >>

InitSprite ==
    /\ sprite = Sprite_default
    /\ sprite_op = [op |-> "none"]
    /\ sprite_sets = 0
    /\ file = << >>
    /\ loaded = [res |-> "none"]

InitChunk ==
    /\ chunk_sound = [data |-> << >>, cursor |-> 0]
    /\ mix_buffer = Filled(2 * ChunkFrames, 0)
    /\ chunk_i = 0

InitPure == InitMix /\ InitDraw /\ InitSprite /\ InitChunk

InitAudio ==
    /\ disk = Files
    /\ queue = << >>
    /\ wpc = "open"
    /\ samples = << >>
    /\ active_sounds = << >>
    /\ active_notes = << >>
    /\ NOTE_COUNTER = 0
    /\ nsent = [s \in Senders |-> 0]
    /\ pending = [s \in Senders |-> [op |-> "none"]]
    /\ dropped = [s \in Senders |-> FALSE]
    /\ calls = 0
    /\ consumed = << >>
    /\ out_count = 0
    /\ note_age = << >>

Init == InitInput /\ InitSched /\ InitAudio /\ InitPure

\* The handles load files, start notes and are dropped; the worker runs
\* beside them.
NextAudio ==
    \/ \E s \in Senders :
          \/ \E path \in {"ok.wav", "nodata.wav"} : load_sample(s, path)
          \/ note_on(s, 440)
          \/ drop(s)
    \/ OpenDevice \/ Receive \/ ReceiveEmpty \/ Mix

SpecAudio == Init /\ [][NextAudio]_vars

\* the worker thread is never blocked (try_recv and the device writes return
\* at once, the sleep is 10 ms): it takes a step whenever it has one
FairAudio == SpecAudio /\ WF_vars(Worker)

\* Two threads hold clones of the handle: one plays notes and drops its
\* clone, the other plays chords. A thread that has made the first send of a
\* call goes on to the second one; the worker takes a step whenever it has
\* one.
NoteDurations == {0, 10}
Chords == {<< >>, << 440, 660 >>}
NoteThreads == {1, 2}

NextPlayNotes ==
    \/ \E duration_ms \in NoteDurations : play_note(1, 440, duration_ms)
    \/ \E freqs \in Chords : play_notes(2, freqs, 20)
    \/ \E s \in NoteThreads : play_note_second(s)
    \/ drop(1)
    \/ OpenDevice \/ Receive \/ ReceiveEmpty \/ Mix

FairPlayNotes ==
    /\ Init /\ [][NextPlayNotes]_vars
    /\ WF_vars(Worker)
    /\ \A s \in NoteThreads : WF_vars(play_note_second(s))

\* a return of start that keeps the audio handle alive: no Quit is sent
start_returns_HandleLeaked ==
    /\ pc = "done"
    /\ ~dropped[1]
    /\ dropped' = [dropped EXCEPT ![1] = TRUE]
    /\ UNCHANGED << queue, nsent, wpc, samples, active_sounds, active_notes,
                    NOTE_COUNTER, pending, calls, consumed, out_count >>
    /\ UNCHANGED << note_age, disk, inputVars, schedVars, pureVars >>

\* start(mut self) returns, line 1643: the engine is dropped, and with it its
\* field audio (line 1268), whose Drop sends Quit (lines 1159-1163). The game
\* uses the engine's handle, which is handle 1.
start_returns ==
    /\ pc = "done"
    /\ ~dropped[1]
    /\ Send(1, [op |-> "Quit"])
    /\ dropped' = [dropped EXCEPT ![1] = TRUE]
    /\ UNCHANGED << wpc, samples, active_sounds, active_notes, NOTE_COUNTER,
                    pending, calls, consumed, out_count >>
    /\ UNCHANGED << note_age, disk, inputVars, schedVars, pureVars >>

\* the game calls engine.audio inside create or update: it starts a note
\* and never releases it, so that only Quit can end the rendering
InCallback == pc \in {"in_create", "in_update"}

game_note_on ==
    /\ InCallback
    /\ calls < GameCalls
    /\ note_on(1, 440)

\* The frame loop runs a game that uses the audio handle, beside the worker
\* thread; when the loop has ended start returns, and the worker takes a step
\* whenever it has one.
NextShutdown ==
    \/ CreateCall \/ CreateReturn \/ CreateStore
    \/ OuterTest \/ InnerTest
    \/ PollKeys \/ PollMouse
    \/ UpdateCall \/ UpdateReturn \/ UpdateStore
    \/ Present
    \/ DestroyCall \/ DestroyReturn \/ DestroyStore
    \/ game_note_on
    \/ start_returns
    \/ OpenDevice \/ Receive \/ ReceiveEmpty \/ Mix

FairShutdown ==
    /\ Init /\ [][NextShutdown]_vars
    /\ WF_vars(Worker)
    /\ WF_vars(start_returns)

\* One handle loads files that can and that cannot be read, and plays one.
LoadPaths == {"ok.wav", "missing.wav", "nodata.wav", "cut.wav"}

NextLoadErrors ==
    \/ \E path \in LoadPaths : load_sample(1, path)
    \/ play_sample(1, "ok.wav")
    \/ OpenDevice \/ Receive \/ ReceiveEmpty \/ Mix

SpecLoadErrors == Init /\ [][NextLoadErrors]_vars

\* The handles load files and are dropped; the worker runs beside them and
\* takes a step whenever it has one.
NextQuit ==
    \/ \E s \in Senders :
          \/ \E path \in {"ok.wav", "nodata.wav"} : load_sample(s, path)
          \/ drop(s)
    \/ OpenDevice \/ Receive \/ ReceiveEmpty \/ Mix

FairQuit == Init /\ [][NextQuit]_vars /\ WF_vars(Worker)

\* One handle starts and stops notes of a few frequencies; the worker runs
\* beside it.
Freqs == {440 * f : f \in 1 .. NumFreqs}

NextNotes ==
    \/ \E f \in Freqs : note_on(1, f) \/ note_off(1, f)
    \/ OpenDevice \/ Receive \/ ReceiveEmpty \/ Mix

SpecNotes == Init /\ [][NextNotes]_vars

\* One handle loads and plays WAV files of several lengths; the worker runs
\* beside it.
WavPaths == {p \in Paths : Files[p].kind = "wav"}

NextSounds ==
    \/ \E path \in WavPaths : load_sample(1, path) \/ play_sample(1, path)
    \/ OpenDevice \/ Receive \/ ReceiveEmpty \/ Mix

SpecSounds == Init /\ [][NextSounds]_vars

FairSounds == SpecSounds /\ WF_vars(Worker)

\* One handle loads and plays a file that is rewritten meanwhile, and plays
\* notes.
NextLibrary ==
    \/ load_sample(1, "ok.wav") \/ play_sample(1, "ok.wav")
    \/ rewrite_file("ok.wav")
    \/ play_note(1, 440, 10) \/ play_note_second(1)
    \/ OpenDevice \/ Receive \/ ReceiveEmpty \/ Mix

SpecLibrary == Init /\ [][NextLibrary]_vars

\* One handle makes every kind of API call, before and after the worker has
\* tried to open the device.
NextDevice ==
    \/ load_sample(1, "ok.wav") \/ play_sample(1, "ok.wav")
    \/ \E duration_ms \in {0, 10} : play_note(1, 440, duration_ms)
    \/ play_note_second(1)
    \/ note_on(1, 440) \/ note_off(1, 440)
    \/ drop(1)
    \/ OpenDevice \/ Receive \/ ReceiveEmpty \/ Mix

SpecDevice == Init /\ [][NextDevice]_vars

\* One drawing call on the buffer as construct_console leaves it.
NextDraw ==
    \/ draw_with
    \/ draw_line_with
    \/ fill_triangle_with
    \/ draw_filled_model
    \/ draw_string_with

SpecDraw == Init /\ [][NextDraw]_vars

\* a sprite is built and a region of it is drawn
NextPartial ==
    \/ new
    \/ set_glyph
    \/ set_color
    \/ draw_partial_sprite

SpecPartial == Init /\ [][NextPartial]_vars

\* one line between endpoints on the screen or far from it, in either build
NextLine == draw_line

SpecLine == Init /\ [][NextLine]_vars

NextMix == MixFrame \/ NewChunk

\* a sprite is built, changed, read, saved and loaded
NextSprite ==
    \/ new
    \/ set_glyph
    \/ set_color
    \/ get_glyph
    \/ get_color
    \/ save_to_file
    \/ from_file

SpecSprite == Init /\ [][NextSprite]_vars

\* a sprite is built, changed and sampled
NextSample ==
    \/ new
    \/ set_glyph
    \/ set_color
    \/ sample_glyph
    \/ sample_color

SpecSample == Init /\ [][NextSample]_vars

\* one playing sound is mixed frame by frame
NextChunk == start_sound \/ mix_sound_frame \/ next_chunk

SpecChunk == Init /\ [][NextChunk]_vars

\* a point is clipped or a rectangle is filled
\* one circle is drawn or filled on the constructed buffer
NextCircle == draw_circle_with \/ fill_circle_with

SpecCircle == Init /\ [][NextCircle]_vars

NextClip == clip \/ fill_rect

SpecClip == Init /\ [][NextClip]_vars

\* a file of any content is loaded
NextSpriteFile == write_file \/ from_file

SpecSpriteFile == Init /\ [][NextSpriteFile]_vars

\* a sprite is built, changed and drawn
NextBlit ==
    \/ new
    \/ set_glyph
    \/ set_color
    \/ draw_sprite

SpecBlit == Init /\ [][NextBlit]_vars

SpecMix == Init /\ [][NextMix]_vars

NextSched ==
    \/ CreateCall \/ CreateReturn \/ CreateStore
    \/ OuterTest \/ InnerTest
    \/ PollKeys \/ PollMouse
    \/ UpdateCall \/ UpdateReturn \/ UpdateStore
    \/ Present
    \/ DestroyCall \/ DestroyReturn \/ DestroyStore
    \/ console_handler

SpecSched == Init /\ [][NextSched]_vars

NextKeys == update_keys

SpecKeys == Init /\ [][NextKeys]_vars

NextMouse == update_mouse

SpecMouse == Init /\ [][NextMouse]_vars

NextMouseTap == update_mouse_buttons

SpecMouseTap == Init /\ [][NextMouseTap]_vars

NextMouseRead == update_mouse_read

SpecMouseRead == Init /\ [][NextMouseRead]_vars

\* ------------------------------------------------------------------------
\* Claims about the keyboard (SpecKeys)
\* ------------------------------------------------------------------------
\* C1: after every poll, key_pressed[i] is true exactly when the key is down
\* in that poll and was not down in the poll before (none before the first);
\* the first three polls down, down, up give pressed and held, then held
\* without pressed, then released without held.
C1_PressedOnRisingEdge ==
    \A i \in Keys :
        /\ key_pressed[i] <=>
               (IsDown(key_new_state[i]) /\ ~IsDown(key_prev_poll[i]))
        /\ key_seq[i] = "d" => (key_pressed[i] /\ key_held[i])
        /\ key_seq[i] = "dd" => (~key_pressed[i] /\ key_held[i])
        /\ key_seq[i] = "ddu" => (key_released[i] /\ ~key_held[i])

C1_Witness ==
    \E i \in Keys : key_seq[i] = "ddu" /\ key_released[i] /\ ~key_held[i]

\* C2: key_released[i] is true after a poll only when the key was down in
\* the poll before and is up in this one, and a key that is up in two
\* consecutive polls has pressed, released and held all false.
C2_ReleasedOnFallingEdge ==
    \A i \in Keys :
        key_seq[i] \notin {"start", "u", "d"} =>
            /\ key_released[i] =>
                   (IsDown(key_prev_poll[i]) /\ ~IsDown(key_new_state[i]))
            /\ (~IsDown(key_prev_poll[i]) /\ ~IsDown(key_new_state[i])) =>
                   (~key_pressed[i] /\ ~key_released[i] /\ ~key_held[i])

\* C3: key_held[i] is the down bit of the value just polled, pressed implies
\* held, released implies not held, pressed and released exclude each other.
C3_HeldIsDownBit ==
    \A i \in Keys :
        /\ key_held[i] = IsDown(key_new_state[i])
        /\ key_pressed[i] => key_held[i]
        /\ key_released[i] => ~key_held[i]
        /\ ~(key_pressed[i] /\ key_released[i])

C3_Witness ==
    \E i \in Keys :
        /\ IsDown(key_prev_poll[i]) /\ IsDown(key_new_state[i])
        /\ key_new_state[i] # key_prev_poll[i]
        /\ key_held[i] /\ ~key_pressed[i]

\* ------------------------------------------------------------------------
\* Claims about the mouse (SpecMouse)
\* ------------------------------------------------------------------------
\* C4: after an update_mouse call in which a button did not change state
\* (a call that found no queued events included), mouse_pressed and
\* mouse_released of that button are false.
C4_MouseEdgesLastOneFrame ==
    \A m \in Buttons :
        ~mouse_changed[m] => (~mouse_pressed[m] /\ ~mouse_released[m])

\* ------------------------------------------------------------------------
\* Claims about the frame loop (SpecSched)
\* ------------------------------------------------------------------------
Events == 1 .. Len(trace)

Happened(e) == \E k \in Events : trace[k] = e

\* C5: if create returns false, destroy is called before start() returns.
C5_DestroyAfterFailedCreate ==
    (pc = "done" /\ Happened("create:false")) => Happened("destroy")

\* C6: after update returns false the frame is presented once, the next
\* callback is destroy, update is not called before it, and start() does not
\* return before destroy was called.
C6_FailedUpdateThenPresentThenDestroy ==
    \A k \in Events :
        trace[k] = "update:false" =>
            /\ k + 1 <= Len(trace) => trace[k + 1] = "present"
            /\ k + 2 <= Len(trace) => trace[k + 2] = "destroy"
            /\ k + 2 > Len(trace) => pc # "done"

C6_Witness ==
    \E k \in Events :
        /\ trace[k] = "update:false"
        /\ k + 2 <= Len(trace)
        /\ trace[k + 1] = "present"
        /\ trace[k + 2] = "destroy"

\* C7: after destroy returns false start() does not return: the frame loop
\* goes on (polls and update) until destroy is called again; after destroy
\* returns true no callback is called any more.
C7_DestroyDecidesShutdown ==
    \A k \in Events :
        /\ trace[k] = "destroy:false" =>
              /\ k = Len(trace) => pc # "done"
              /\ k < Len(trace) => trace[k + 1] \in {"keys", "destroy"}
        /\ trace[k] = "destroy:true" => k = Len(trace)

\* C8: a close signal delivered before start() has returned is followed by
\* a call of destroy: start() never returns with a signal still unanswered.
C8_CloseSignalNeverLost ==
    pc = "done" => ~close_pending

\* ------------------------------------------------------------------------
\* Claims about the audio worker (SpecAudio, FairAudio)
\* ------------------------------------------------------------------------
\* every command is known by the handle that sent it and its number there
CommandIds == Senders \X (1 .. 2 * MaxCalls)

IsConsumed(id) ==
    \E k \in 1 .. Len(consumed) : << consumed[k].from, consumed[k].seq >> = id

QuitQueued == \E k \in 1 .. Len(queue) : queue[k].cmd.op = "Quit"

QuitConsumed == \E k \in 1 .. Len(consumed) : consumed[k].cmd.op = "Quit"

\* id is in the queue with no Quit ahead of it, and none received so far
QueuedBeforeQuit(id) ==
    /\ ~QuitConsumed
    /\ \E k \in 1 .. Len(queue) :
          /\ << queue[k].from, queue[k].seq >> = id
          /\ \A j \in 1 .. (k - 1) : queue[j].cmd.op # "Quit"

DeviceOpened == wpc \notin {"open", "failed"}

ConsumedAtMostOnce ==
    \A i, j \in 1 .. Len(consumed) :
        (consumed[i].from = consumed[j].from /\ consumed[i].seq = consumed[j].seq)
            => i = j

ConsumedInSendOrder ==
    \A i, j \in 1 .. Len(consumed) :
        (i < j /\ consumed[i].from = consumed[j].from)
            => consumed[i].seq < consumed[j].seq

\* C9: a command is received at most once, the commands of one handle are
\* received in the order it sent them, and with the device open every
\* command queued before the first Quit is eventually received.
C9_EveryCommandConsumedOnceInOrder ==
    /\ [](ConsumedAtMostOnce /\ ConsumedInSendOrder)
    /\ \A id \in CommandIds :
          (DeviceOpened /\ QueuedBeforeQuit(id)) ~> IsConsumed(id)

\* C10: once Quit is in the queue the worker thread eventually ends; when
\* it has received Quit, the commands its sender sent earlier were received
\* before, and from then on nothing is received and no buffer is written.
C10_QuitStopsWorker ==
    /\ QuitQueued ~> WorkerEnded
    /\ [](QuitConsumed =>
            LET q == consumed[Len(consumed)]
            IN  /\ q.cmd.op = "Quit"
                /\ wpc = "quit"
                /\ \A n \in 1 .. (q.seq - 1) : IsConsumed(<< q.from, n >>))
    /\ [][QuitConsumed =>
             (consumed' = consumed /\ out_count' = out_count /\ wpc' = wpc
              /\ active_sounds' = active_sounds /\ active_notes' = active_notes)]_vars

C10_Witness ==
    /\ QuitConsumed
    /\ Len(consumed) >= 2
    /\ queue # << >>
    /\ out_count >= 1

\* ------------------------------------------------------------------------
\* Claims about notes (SpecNotes)
\* ------------------------------------------------------------------------
\* the release takes RAMP_FRAMES frames at most: so many chunks
RELEASE_CHUNKS == (RAMP_FRAMES + CHUNK_SIZE - 1) \div CHUNK_SIZE

\* C11: a note that a received NoteOff of its frequency has matched is out
\* of active_notes once 5 chunks have been rendered since then, whatever
\* number of chunks was rendered between its NoteOn and that NoteOff; if no
\* chunk was rendered between the two it is out after the first chunk.
C11_ReleasedNoteGoneInFiveChunks ==
    /\ Len(note_age) = Len(active_notes)
    /\ RELEASE_CHUNKS = 5
    /\ \A k \in DOMAIN active_notes :
          /\ note_age[k].off < RELEASE_CHUNKS
          /\ note_age[k].off >= 1 => note_age[k].on > note_age[k].off

\* a note released at full amplitude is still there after four chunks
C11_Witness ==
    \E k \in DOMAIN active_notes :
        /\ note_age[k].off = RELEASE_CHUNKS - 1
        /\ active_notes[k].target_amp = 0
        /\ active_notes[k].amplitude > 0

\* the worker is about to receive a NoteOff whose frequency no active note has
UnmatchedNoteOffNext ==
    /\ wpc = "drain"
    /\ queue # << >>
    /\ Head(queue).cmd.op = "NoteOff"
    /\ \A k \in DOMAIN active_notes :
          ~(active_notes[k].freq = Head(queue).cmd.freq /\ active_notes[k].active)

\* C12: receiving a NoteOff(f) while no active note has frequency f leaves
\* active_notes as it was (target, step and active flag of every note
\* included) and leaves the worker in its drain loop, ready for the next
\* command; the worker thread never panics.
C12_UnmatchedNoteOffChangesNothing ==
    /\ [][(UnmatchedNoteOffNext /\ consumed' # consumed) =>
             (active_notes' = active_notes /\ wpc' = "drain")]_vars
    /\ [](wpc # "panicked")

\* a NoteOff(f) was received with only a note of another frequency active,
\* that note is still rising, and a later command was received
C12_Witness ==
    \E k \in 2 .. (Len(consumed) - 1) :
        /\ consumed[k].cmd.op = "NoteOff"
        /\ consumed[k - 1].cmd.op = "NoteOn"
        /\ consumed[k - 1].cmd.freq # consumed[k].cmd.freq
        /\ \A j \in 1 .. (k - 1) :
              ~(consumed[j].cmd.op = "NoteOn" /\ consumed[j].cmd.freq = consumed[k].cmd.freq)
        /\ \E n \in DOMAIN active_notes :
              /\ active_notes[n].freq = consumed[k - 1].cmd.freq
              /\ active_notes[n].target_amp = RAMP_FRAMES
              /\ active_notes[n].step = 1

\* ------------------------------------------------------------------------
\* Claims about the mix of one cell (SpecMix)
\* ------------------------------------------------------------------------
RECURSIVE SumSounds(_)
SumSounds(sounds) ==
    IF sounds = << >> THEN 0 ELSE Head(sounds) + SumSounds(Tail(sounds))

RECURSIVE SumNotes(_, _)
SumNotes(notes, n) ==
    IF notes = << >> THEN 0
    ELSE NoteSample(Head(notes).sin, Head(notes).amplitude, n)
         + SumNotes(Tail(notes), n)

\* what the sounds and the notes add to the cell, as an unbounded integer
CellTotal == SumSounds(mix_sounds) + SumNotes(mix_notes, Max(Len(mix_notes), 1))

\* C13: every sample handed to the device lies in [-32768, 32767], for any
\* number of active notes and of playing sounds: a sum above the range is
\* output as 32767, a sum below it as -32768 (clamped, not wrapped), a sum
\* inside the range is output as it is.
C13_OutputClampedToI16 ==
    mix_pc = "played" =>
        /\ final_sample \in I16_MIN .. I16_MAX
        /\ CellTotal > I16_MAX => final_sample = I16_MAX
        /\ CellTotal < I16_MIN => final_sample = I16_MIN
        /\ CellTotal \in I16_MIN .. I16_MAX => final_sample = CellTotal

\* two sounds and two notes at their peaks together exceed the range
C13_Witness ==
    /\ mix_pc = "played"
    /\ Len(mix_sounds) >= 2
    /\ Len(mix_notes) >= 2
    /\ \A k \in DOMAIN mix_notes : NoteSample(mix_notes[k].sin, mix_notes[k].amplitude, Len(mix_notes)) > 0
    /\ CellTotal > I16_MAX
    /\ final_sample = I16_MAX

\* ------------------------------------------------------------------------
\* Claims about playing sounds (SpecSounds, FairSounds)
\* ------------------------------------------------------------------------
Playing(path) == \E k \in DOMAIN active_sounds : active_sounds[k].data.src = path

\* C14: every PlayingSound is eventually removed from active_sounds, for
\* every buffer length (zero, odd and even): while instances of a file are
\* playing, a time comes when none is.
C14_EverySoundEventuallyRemoved ==
    \A path \in WavPaths : Playing(path) ~> ~Playing(path)

\* the worker is about to receive a PlaySample
PlaySampleNext ==
    /\ wpc = "drain"
    /\ queue # << >>
    /\ Head(queue).cmd.op = "PlaySample"

\* C15: receiving PlaySample(id) with id in samples appends exactly one
\* PlayingSound with cursor 0 and the sample's data to active_sounds and
\* leaves the instances already playing as they are; with id not in samples
\* active_sounds stays as it is; in both cases the worker stays in its
\* drain loop.
C15_PlaySampleAddsOneInstance ==
    [][(PlaySampleNext /\ consumed' # consumed) =>
         LET id == Head(queue).cmd.path
         IN  /\ id \in DOMAIN samples =>
                    active_sounds' = Append(active_sounds,
                                            [data |-> samples[id], cursor |-> 0])
             /\ id \notin DOMAIN samples => active_sounds' = active_sounds
             /\ wpc' = "drain"]_vars

\* two instances of one sample play at once, one of them just started
C15_Witness ==
    \E i, j \in DOMAIN active_sounds :
        /\ i < j
        /\ active_sounds[i].data = active_sounds[j].data
        /\ active_sounds[i].cursor > 0
        /\ active_sounds[j].cursor = 0

\* ------------------------------------------------------------------------
\* Claims about a device that fails to open (SpecDevice)
\* ------------------------------------------------------------------------
DeviceFailed == wpc = "failed"

\* nothing was received, stored, started or written to the device
NoAudioEffect ==
    /\ consumed = << >>
    /\ samples = << >>
    /\ active_sounds = << >>
    /\ active_notes = << >>
    /\ out_count = 0

\* every API call open to the handle can return
ApiCallsReturn ==
    /\ CanCall(1) =>
          /\ ENABLED load_sample(1, "ok.wav")
          /\ ENABLED play_sample(1, "ok.wav")
          /\ ENABLED play_note(1, 440, 10)
          /\ ENABLED note_on(1, 440)
          /\ ENABLED note_off(1, 440)
          /\ ENABLED drop(1)
    /\ pending[1].op # "none" => ENABLED play_note_second(1)

\* C16: if the device fails to open, the worker has ended without receiving
\* a command, and from then on every API call (load_sample, play_sample,
\* play_note, note_on, note_off, drop) returns and has no effect: nothing
\* joins the queue, nothing is received, stored, played or written.
C16_FailedDeviceIgnoresCalls ==
    /\ [](DeviceFailed => (NoAudioEffect /\ ApiCallsReturn))
    /\ [][DeviceFailed => (DeviceFailed' /\ queue' = queue)]_vars

\* after the failure the handle made calls, the last of them drop
C16_Witness ==
    /\ DeviceFailed
    /\ queue = << >>
    /\ nsent[1] >= 3
    /\ dropped[1]

\* ------------------------------------------------------------------------
\* Claims about drawing (SpecDraw)
\* ------------------------------------------------------------------------
\* the cells of the buffer that are not as construct_console left them
Changed == {cell \in Cells : window_buffer[cell] # 0}

CellOf(p) == p.y * ScreenW + p.x

\* the cells of the buffer among the addressed ones
AddressedCells ==
    {CellOf(addressed[k]) : k \in {j \in DOMAIN addressed : OnScreen(addressed[j])}}

\* C17: every drawing call, with coordinates off the buffer or not, returns
\* without error and changes exactly the cells (x, y) it addresses that lie
\* on the buffer; the rest is dropped.
C17_DrawingIsClipped ==
    /\ draw_pc # "panicked"
    /\ Changed = AddressedCells

\* the addressed cells whose coordinate on the given axis is v
AddressedAt(axis, v) == {k \in DOMAIN addressed : addressed[k][axis] = v}

\* twice the distance along the minor axis between p and the exact line
\* from a to b, times the extent of the line along the major axis
TwiceDeviation(p, a, b, major, minor) ==
    Abs(2 * (b[major] - a[major]) * (p[minor] - a[minor])
        - 2 * (b[minor] - a[minor]) * (p[major] - a[major]))

\* C18: draw_line from (x1, y1) to (x2, y2) addresses max(|dx|, |dy|) + 1
\* cells, exactly one for each whole coordinate of the major axis between
\* the end points, both end points among them, and each cell is at most
\* 1/2 away from the exact line along the minor axis; so for (0,0)-(4,2).
C18_LineIsBresenham ==
    draw_op.op = "draw_line_with" =>
        LET a == draw_op.p1
            b == draw_op.p2
            major == IF Abs(b.y - a.y) <= Abs(b.x - a.x) THEN "x" ELSE "y"
            minor == IF major = "x" THEN "y" ELSE "x"
            extent == Abs(b[major] - a[major])
        IN  /\ Len(addressed) = Max(Abs(b.x - a.x), Abs(b.y - a.y)) + 1
            /\ \A v \in Min(a[major], b[major]) .. Max(a[major], b[major]) :
                  Cardinality(AddressedAt(major, v)) = 1
            /\ \E k \in DOMAIN addressed : addressed[k] = a
            /\ \E k \in DOMAIN addressed : addressed[k] = b
            /\ \A k \in DOMAIN addressed :
                  TwiceDeviation(addressed[k], a, b, major, minor) <= extent

\* the line from (0,0) to (4,2), with its five cells
C18_Witness ==
    /\ draw_op = [op |-> "draw_line_with", p1 |-> Point(0, 0), p2 |-> Point(4, 2)]
    /\ addressed = << Point(0, 0), Point(1, 1), Point(2, 1), Point(3, 2), Point(4, 2) >>
    /\ Cardinality(Changed) = 5

\* the cells (x, y) of the buffer with x + y <= 4
TriangleCells ==
    {CellOf(Point(q[1], q[2])) : q \in {r \in (0 .. 4) \X (0 .. 4) : r[1] + r[2] <= 4}}

\* C19: fill_triangle for the vertices (0,0), (4,0), (0,4), given in any
\* order, writes exactly the cells (x, y) with x >= 0, y >= 0, x + y <= 4.
C19_TriangleFillIsExact ==
    (/\ draw_op.op = "fill_triangle_with"
     /\ {draw_op.p1, draw_op.p2, draw_op.p3} = {Point(0, 0), Point(4, 0), Point(0, 4)})
        => Changed = TriangleCells

\* C20: for a closed polygon of 3 or more vertices at whole coordinates
\* (rotation 0, scale 1) every scanline, sampled at y + 0.5, has an even
\* number of intersections, so that the pairing loop leaves none over; a
\* vertex list of fewer than 3 vertices writes nothing.
C20_ScanlineCrossingsAreEven ==
    draw_op.op = "draw_filled_model" =>
        /\ \A r \in DOMAIN crossings : crossings[r] % 2 = 0
        /\ Len(draw_op.model_coords) < 3 => (addressed = << >> /\ Changed = {})

\* a concave or self-crossing model: a row with four intersections, filled
C20_Witness ==
    /\ draw_op.op = "draw_filled_model"
    /\ Len(draw_op.model_coords) >= 4
    /\ \E r \in DOMAIN crossings : crossings[r] = 4
    /\ Changed # {}

\* ------------------------------------------------------------------------
\* C21: draw_sprite copies the glyph and the colour of sprite cell (i, j) to
\* the screen cell (x + i, y + j) when the glyph is not PIXEL_EMPTY, and
\* changes no other screen cell: neither the cells under a PIXEL_EMPTY
\* glyph nor the cells outside the sprite's rectangle.
\* ------------------------------------------------------------------------
IsOp(name) == draw_pc = "ready" /\ draw_pc' # "ready" /\ draw_op'.op = name

\* the column and the row of a cell of the buffer
CellX(cell) == cell % ScreenW
CellY(cell) == cell \div ScreenW

C21_SpriteBlitCopiesOpaqueCells ==
    [][IsOp("draw_sprite") =>
        \A cell \in Cells :
            LET i == CellX(cell) - draw_op'.x
                j == CellY(cell) - draw_op'.y
                k == j * sprite.width + i + 1
                covered == /\ i >= 0 /\ i < sprite.width
                           /\ j >= 0 /\ j < sprite.height
            IN  IF covered /\ sprite.glyphs[k] # PIXEL_EMPTY
                THEN /\ window_buffer'[cell] = sprite.glyphs[k]
                     /\ window_attr'[cell] = sprite.colors[k]
                ELSE /\ window_buffer'[cell] = window_buffer[cell]
                     /\ window_attr'[cell] = window_attr[cell]]_vars

\* a sprite with a '#' in white and an empty glyph, both over the screen,
\* was drawn: the '#' is in the buffer and the cell under the empty glyph
\* still holds what it held
C21_Witness ==
    /\ draw_pc = "drawn"
    /\ draw_op.op = "draw_sprite"
    /\ \E i \in SpriteCoords, j \in SpriteCoords :
          /\ InGrid(sprite, i, j)
          /\ GlyphAt(sprite, i, j) = HASH
          /\ ColorAt(sprite, i, j) = FG_WHITE
          /\ OnScreen(Point(draw_op.x + i, draw_op.y + j))
          /\ window_buffer[(draw_op.y + j) * ScreenW + draw_op.x + i] = HASH
          /\ window_attr[(draw_op.y + j) * ScreenW + draw_op.x + i] = FG_WHITE
    /\ \E i \in SpriteCoords, j \in SpriteCoords :
          /\ InGrid(sprite, i, j)
          /\ GlyphAt(sprite, i, j) = PIXEL_EMPTY
          /\ OnScreen(Point(draw_op.x + i, draw_op.y + j))
          /\ window_buffer[(draw_op.y + j) * ScreenW + draw_op.x + i] = 0

\* ------------------------------------------------------------------------
\* C25: the Sprite accessors are bounds-checked and local.  A setter called
\* outside the grid changes nothing; inside it changes the one cell of its
\* own grid, which then holds the value; a getter returns the cell, or
\* PIXEL_EMPTY / FG_BLACK outside the grid, and changes nothing; a new
\* sprite holds PIXEL_EMPTY / FG_BLACK in width * height cells; no accessor
\* changes width, height or the length of a grid.
\* ------------------------------------------------------------------------
SpriteCalled(name) ==
    /\ sprite_op'.op = name
    /\ sprite_op' # sprite_op \/ sprite_sets' # sprite_sets

SameShape ==
    /\ sprite'.width = sprite.width
    /\ sprite'.height = sprite.height
    /\ Len(sprite'.glyphs) = Len(sprite.glyphs)
    /\ Len(sprite'.colors) = Len(sprite.colors)

\* grid is the grid before and after a call at (x, y) with value c
OnlyCellSet(before, after, x, y, c) ==
    IF x < sprite.width /\ y < sprite.height
    THEN /\ after[y * sprite.width + x + 1] = c
         /\ \A k \in DOMAIN before :
               k # y * sprite.width + x + 1 => after[k] = before[k]
    ELSE after = before

CellRead(grid, x, y, outside) ==
    IF x < sprite.width /\ y < sprite.height
    THEN grid[y * sprite.width + x + 1]
    ELSE outside

C25_AccessorsAreCheckedAndLocal ==
    [][/\ SpriteCalled("set_glyph") =>
            /\ SameShape
            /\ sprite'.colors = sprite.colors
            /\ OnlyCellSet(sprite.glyphs, sprite'.glyphs,
                           sprite_op'.x, sprite_op'.y, sprite_op'.c)
       /\ SpriteCalled("set_color") =>
            /\ SameShape
            /\ sprite'.glyphs = sprite.glyphs
            /\ OnlyCellSet(sprite.colors, sprite'.colors,
                           sprite_op'.x, sprite_op'.y, sprite_op'.c)
       /\ SpriteCalled("get_glyph") =>
            /\ sprite' = sprite
            /\ sprite_op'.res = CellRead(sprite.glyphs, sprite_op'.x,
                                         sprite_op'.y, PIXEL_EMPTY)
       /\ SpriteCalled("get_color") =>
            /\ sprite' = sprite
            /\ sprite_op'.res = CellRead(sprite.colors, sprite_op'.x,
                                         sprite_op'.y, FG_BLACK)
       /\ SpriteCalled("new") =>
            /\ sprite'.width = sprite_op'.width
            /\ sprite'.height = sprite_op'.height
            /\ Len(sprite'.glyphs) = sprite_op'.width * sprite_op'.height
            /\ Len(sprite'.colors) = sprite_op'.width * sprite_op'.height
            /\ \A k \in DOMAIN sprite'.glyphs : sprite'.glyphs[k] = PIXEL_EMPTY
            /\ \A k \in DOMAIN sprite'.colors : sprite'.colors[k] = FG_BLACK
      ]_vars

\* after a setter wrote '#' into a cell of a sprite of several cells, a
\* getter read it there
C25_Witness ==
    /\ sprite_op.op = "get_glyph"
    /\ sprite_op.res = HASH
    /\ sprite.width > 1 /\ sprite.height > 1
    /\ \E k \in DOMAIN sprite.glyphs : sprite.glyphs[k] = PIXEL_EMPTY

\* ------------------------------------------------------------------------
\* C22: loading the bytes that save_to_file wrote for a sprite yields a
\* sprite equal to it: the same width, height, glyphs and colours.
\* ------------------------------------------------------------------------
LoadedAfterSave ==
    /\ sprite_op.op = "save_to_file"
    /\ sprite_op.res = "Ok"
    /\ loaded.res = "none"
    /\ loaded'.res # "none"

C22_SaveThenLoadIsIdentity ==
    [][LoadedAfterSave => loaded'.res = "Ok" /\ loaded'.sprite = sprite]_vars

\* ------------------------------------------------------------------------
\* C23: from_file returns an error, and does not panic, for every file of
\* fewer than 8 + 4 * width * height bytes, width and height being the two
\* header fields, however large their product is.
\* ------------------------------------------------------------------------
HeaderWidth == FromLe(SubSeq(file, 1, 4))
HeaderHeight == FromLe(SubSeq(file, 5, 8))

TooShort ==
    \/ Len(file) < 8
    \/ Len(file) < 8 + 4 * HeaderWidth * HeaderHeight

C23_ShortFileIsAnError ==
    loaded.res # "none" /\ TooShort => loaded.res = "Err"

\* ------------------------------------------------------------------------
\* C24: for a sprite of at least one cell and any coordinates, sample_glyph
\* (x, y) returns the glyph of a cell of the grid, the same one that
\* sample_glyph(x - floor(x), y - floor(y)) returns; likewise sample_color.
\* ------------------------------------------------------------------------
Sampled == sprite_op.op \in {"sample_glyph", "sample_color"}

\* x - x.floor() as the caller computes it
Fraction(x) == SubF(x, FloorF(x))

\* the cell the call read lies in the grid
SampledInRange ==
    \E i \in 0 .. (sprite.width - 1), j \in 0 .. (sprite.height - 1) :
        /\ i = WrappedIndex(sprite_op.x, sprite.width)
        /\ j = WrappedIndex(sprite_op.y, sprite.height)
        /\ sprite_op.res =
             IF sprite_op.op = "sample_glyph"
             THEN sprite.glyphs[j * sprite.width + i + 1]
             ELSE sprite.colors[j * sprite.width + i + 1]

C24_SamplingIsPeriodic ==
    Sampled /\ sprite.width >= 1 /\ sprite.height >= 1 =>
        /\ sprite_op.ret = "Ok"
        /\ SampledInRange
        /\ sprite_op.res = Sample(sprite, Fraction(sprite_op.x), Fraction(sprite_op.y),
                                  sprite_op.op = "sample_glyph").res

\* the glyph '#' was sampled at x = -1 / UNIT, whose fraction rounds to 1,
\* from a sprite with an empty cell
C24_Witness ==
    /\ sprite_op.op = "sample_glyph"
    /\ sprite_op.x = -1
    /\ Fraction(sprite_op.x) = UNIT
    /\ sprite_op.res = HASH
    /\ sprite.width > 1
    /\ \E k \in DOMAIN sprite.glyphs : sprite.glyphs[k] = PIXEL_EMPTY

\* ------------------------------------------------------------------------
\* C26: after clip(x, y) the point is on the screen, 0 <= x < screen_width
\* and 0 <= y < screen_height; a point that was on the screen is unchanged;
\* clipping the result again changes nothing.
\* ------------------------------------------------------------------------
C26_ClipEndsOnScreen ==
    draw_op.op = "clip" =>
        /\ 0 <= draw_op.res.x /\ draw_op.res.x < ScreenW
        /\ 0 <= draw_op.res.y /\ draw_op.res.y < ScreenH
        /\ OnScreen(Point(draw_op.x, draw_op.y)) =>
              draw_op.res = Point(draw_op.x, draw_op.y)
        /\ Clip(draw_op.res) = draw_op.res

\* ------------------------------------------------------------------------
\* C27: create is called once, first, and nothing is polled or presented
\* before it returns; in each iteration the keyboard is polled, then the
\* mouse, then update is called, then the frame is presented, one present
\* for each call of update.
\* ------------------------------------------------------------------------
Positions == 1 .. Len(trace)

\* event e is directly preceded by one of the events of before
Follows(e, before) ==
    \A k \in Positions : trace[k] = e => k > 1 /\ trace[k - 1] \in before

\* event e is directly followed by event next, unless it is the last so far
LeadsDirectlyTo(e, next) ==
    \A k \in Positions : trace[k] = e /\ k < Len(trace) => trace[k + 1] = next

Count(e) == Cardinality({k \in Positions : trace[k] = e})

C27_FrameStepsInOrder ==
    /\ \A k \in Positions : trace[k] = "create" <=> k = 1
    /\ LeadsDirectlyTo("create", "create:true") \/ LeadsDirectlyTo("create", "create:false")
    /\ Follows("keys", {"create:true", "present", "destroy:false"})
    /\ Follows("mouse", {"keys"})
    /\ Follows("update", {"mouse"})
    /\ Follows("update:true", {"update"})
    /\ Follows("update:false", {"update"})
    /\ Follows("present", {"update:true", "update:false"})
    /\ LeadsDirectlyTo("keys", "mouse")
    /\ LeadsDirectlyTo("mouse", "update")
    /\ LeadsDirectlyTo("update:true", "present")
    /\ LeadsDirectlyTo("update:false", "present")
    /\ pc \in {"inner_test", "destroy", "in_destroy", "destroy_store", "outer_test", "done"}
          => Count("present") = Count("update")

\* two iterations were made, the second with an update that returned false,
\* and start() returned
C27_Witness ==
    /\ pc = "done"
    /\ Count("present") = 2
    /\ \E k \in Positions :
          /\ k + 5 <= Len(trace)
          /\ trace[k] = "present"
          /\ trace[k + 1] = "keys"
          /\ trace[k + 4] = "update:false"
          /\ trace[k + 5] = "present"

\* ------------------------------------------------------------------------
\* C28: an update_mouse call that finds no queued event leaves the position,
\* the focus flag, mouse_held and the button state (new and old) as they
\* were; a call changes the position only if it read a MOUSE_MOVED record
\* and the focus flag only if it read a FOCUS_EVENT record.
\* ------------------------------------------------------------------------
C28_MouseStateChangesOnlyByItsRecord ==
    [][/\ mouse_read' = {} =>
            UNCHANGED << mouse_x, mouse_y, console_in_focus, mouse_held,
                         mouse_new_state, mouse_old_state >>
       /\ (mouse_x' # mouse_x \/ mouse_y' # mouse_y) => "moved" \in mouse_read'
       /\ console_in_focus' # console_in_focus => "focus" \in mouse_read'
      ]_vars

\* a button is held, the pointer was moved and the focus was lost, and the
\* last call found no event
C28_Witness ==
    /\ mouse_read = {}
    /\ \E m \in Buttons : mouse_held[m]
    /\ mouse_x # 0
    /\ ~console_in_focus

\* ------------------------------------------------------------------------
\* C29: in each frame that a playing sound is mixed into, one sample of its
\* data is added to the left and to the right channel of the frame, and the
\* cursor advances by one sample.
\* ------------------------------------------------------------------------
FrameMixed == chunk_i' = chunk_i + 1 /\ chunk_sound'.cursor # chunk_sound.cursor

C29_MonoSampleInBothChannels ==
    [][FrameMixed =>
        LET sample == chunk_sound.data[chunk_sound.cursor + 1]
        IN  /\ mix_buffer'[2 * chunk_i + 1] = mix_buffer[2 * chunk_i + 1] + sample
            /\ mix_buffer'[2 * chunk_i + 2] = mix_buffer[2 * chunk_i + 2] + sample
            /\ chunk_sound'.cursor = chunk_sound.cursor + 1]_vars


\* the command the worker consumes in this step
Consuming == Head(queue).cmd

CommandConsumed == consumed' # consumed

\* C30: a playing instance holds the samples its id mapped to when its
\* PlaySample was consumed, from cursor 0; a command the worker consumes,
\* among them a LoadSample or LoadSampleFromBuffer that replaces the library
\* entry of the same id, changes neither the data nor the cursor of the
\* instances already playing; mixing changes no instance's data; and no step
\* removes an id from the library.
C30_PlayingInstanceKeepsItsSamples ==
    [][/\ DOMAIN samples \subseteq DOMAIN samples'
       /\ CommandConsumed =>
            /\ \A k \in DOMAIN active_sounds :
                    /\ k \in DOMAIN active_sounds'
                    /\ active_sounds'[k] = active_sounds[k]
            /\ \A k \in DOMAIN active_sounds' \ DOMAIN active_sounds :
                    /\ Consuming.op = "PlaySample"
                    /\ active_sounds'[k] =
                          [data |-> samples[Consuming.path], cursor |-> 0]
       /\ ~CommandConsumed =>
            \A k \in DOMAIN active_sounds' :
                \E j \in DOMAIN active_sounds :
                    active_sounds'[k].data = active_sounds[j].data]_vars

\* an instance plays, part of the way through, samples that the library
\* no longer holds under any id: its entry has been replaced since
C30_Witness ==
    \E k \in DOMAIN active_sounds :
        /\ active_sounds[k].cursor > 0
        /\ active_sounds[k].data.src = "ok.wav"
        /\ "ok.wav" \in DOMAIN samples
        /\ samples["ok.wav"] # active_sounds[k].data
        /\ samples["ok.wav"] = [src |-> "ok.wav", len |-> Rewritten.len]

\* ------------------------------------------------------------------------
\* Claims about play_note and play_notes (FairPlayNotes)
\* ------------------------------------------------------------------------
NoteKeys == {generate_unique_key(id) : id \in 0 .. MaxCalls}

\* every command sent so far that reached the channel, in channel order
Channel == consumed \o queue

IsLoadOf(entry, key) ==
    entry.cmd.op = "LoadSampleFromBuffer" /\ entry.cmd.path = key

IsPlayOf(entry, key) == entry.cmd.op = "PlaySample" /\ entry.cmd.path = key

\* a call has drawn the key
Issued(key) == \E id \in 0 .. MaxCalls : id < NOTE_COUNTER /\ key = generate_unique_key(id)

\* the buffer of the key and then its PlaySample have been received
Played(key) ==
    \E i, j \in DOMAIN consumed :
        i < j /\ IsLoadOf(consumed[i], key) /\ IsPlayOf(consumed[j], key)

\* no two calls hold the same key: a key is sent in at most one buffer and
\* one PlaySample, both by the thread that drew it, and is pending in at most
\* one thread, which has not sent its PlaySample yet
KeysAreDistinct ==
    /\ \A i, j \in DOMAIN Channel :
          (i # j /\ Channel[i].cmd.op = Channel[j].cmd.op
           /\ Channel[i].cmd.op \in {"LoadSampleFromBuffer", "PlaySample"})
             => Channel[i].cmd.path # Channel[j].cmd.path
    /\ \A i, j \in DOMAIN Channel :
          (Channel[i].cmd.op = "LoadSampleFromBuffer" /\ IsPlayOf(Channel[j], Channel[i].cmd.path))
             => (i < j /\ Channel[i].from = Channel[j].from)
    /\ \A s, t \in Senders :
          (s # t /\ pending[s].op = "PlaySample" /\ pending[t].op = "PlaySample")
             => pending[s].path # pending[t].path
    /\ \A s \in Senders : \A i \in DOMAIN Channel :
          pending[s].op = "PlaySample" => ~IsPlayOf(Channel[i], pending[s].path)

\* the step receives the PlaySample of a call: the buffer of the call was
\* received before, and the step adds one PlayingSound, which holds it
PlaySampleStartsTheCallsBuffer ==
    (CommandConsumed /\ Consuming.op = "PlaySample") =>
        \E i \in DOMAIN consumed :
            /\ IsLoadOf(consumed[i], Consuming.path)
            /\ consumed[i].from = Head(queue).from
            /\ consumed[i].cmd.buffer.src = Consuming.path
            /\ active_sounds' =
                  Append(active_sounds, [data |-> consumed[i].cmd.buffer, cursor |-> 0])

Vertices == {draw_op.p1, draw_op.p2, draw_op.p3}

AddressedPoints == {addressed[k] : k \in DOMAIN addressed}

SmallestOf(values) == CHOOSE v \in values : \A w \in values : v <= w
LargestOf(values) == CHOOSE v \in values : \A w \in values : v >= w

VertexRows == {v.y : v \in Vertices}
VertexColumns == {v.x : v \in Vertices}

\* C32: fill_triangle addresses only cells whose row lies between the
\* smallest and the largest vertex y and whose column lies between the
\* smallest and the largest vertex x, addresses at least one cell on every
\* such row, and addresses the three vertices.
C32_TriangleFillCoversBoundingRows ==
    draw_op.op = "fill_triangle_with" =>
        /\ \A p \in AddressedPoints :
              /\ SmallestOf(VertexRows) <= p.y /\ p.y <= LargestOf(VertexRows)
              /\ SmallestOf(VertexColumns) <= p.x /\ p.x <= LargestOf(VertexColumns)
        /\ \A row \in SmallestOf(VertexRows) .. LargestOf(VertexRows) :
              \E p \in AddressedPoints : p.y = row
        /\ Vertices \subseteq AddressedPoints

\* the addressed cells as offsets from the centre of the circle
Offsets == {<< p.x - draw_op.xc, p.y - draw_op.yc >> : p \in AddressedPoints}

\* the cells that draw_circle addresses for the same centre and radius
Outline ==
    LET points == CirclePoints(draw_op.xc, draw_op.yc, draw_op.r, FALSE)
    IN  {points[k] : k \in DOMAIN points}

OutlineColumns(row) == {p.x : p \in {q \in Outline : q.y = row}}

\* the cells between the leftmost and the rightmost outline cell of each row
BetweenOutline ==
    UNION {{Point(x, row) :
                x \in SmallestOf(OutlineColumns(row)) .. LargestOf(OutlineColumns(row))} :
           row \in {q.y : q \in Outline}}

\* C33: for r >= 1 the cells draw_circle addresses are invariant under the
\* reflections about the centre (the sign flips of x and of y and the swap of
\* x and y, which generate the 8), and fill_circle addresses exactly the
\* cells that lie, on each row, between the leftmost and the rightmost
\* outline cell of that row; for r <= 0 both address and write nothing.
C33_CircleIsSymmetricAndFilled ==
    /\ (draw_op.op = "draw_circle_with" /\ draw_op.r >= 1) =>
          \A o \in Offsets :
              /\ << -o[1], o[2] >> \in Offsets
              /\ << o[1], -o[2] >> \in Offsets
              /\ << o[2], o[1] >> \in Offsets
    /\ (draw_op.op = "fill_circle_with" /\ draw_op.r >= 1) =>
          AddressedPoints = BetweenOutline
    /\ (draw_op.op \in {"draw_circle_with", "fill_circle_with"} /\ draw_op.r <= 0) =>
          (addressed = << >> /\ Changed = {})

\* a filled circle of radius 3 or more, part of it on the buffer, with a row
\* on which two iterations of the loop draw spans of different lengths
C33_Witness ==
    /\ draw_op.op = "fill_circle_with"
    /\ draw_op.r >= 3
    /\ Changed # {}
    /\ Cardinality(AddressedPoints) < Len(addressed)
    /\ Point(draw_op.xc + 1, draw_op.yc - draw_op.r) \in AddressedPoints

\* ------------------------------------------------------------------------
\* Claims about dropped clones of the handle (FairQuit)
\* ------------------------------------------------------------------------
\* the commands of sender s that reached the channel
ReachedChannel(s) == Cardinality({k \in DOMAIN Channel : Channel[k].from = s})

\* sender s makes a send in this step
Sends(s) == nsent'[s] = nsent[s] + 1

\* C34: dropping a handle, a clone included, sends Quit, which joins the
\* queue while the worker thread lives; once the worker has received a Quit
\* it receives nothing more, and a command sent afterwards through a
\* remaining clone is discarded: the call returns (the send is counted) and
\* the queue stays as it is.
C34_QuitOfOneCloneEndsAllClones ==
    [][/\ \A s \in Senders :
            (dropped'[s] /\ ~dropped[s]) =>
                /\ Sends(s)
                /\ ~WorkerEnded =>
                      queue' = Append(queue, [from |-> s, seq |-> nsent'[s],
                                              cmd |-> [op |-> "Quit"]])
       /\ QuitConsumed =>
            /\ consumed' = consumed
            /\ queue' = queue
            /\ wpc' = "quit"]_vars

\* the worker has received the Quit of one clone, and another clone, not
\* dropped, has made a call since: its command did not reach the channel
C34_Witness ==
    \E s, t \in Senders :
        /\ s # t
        /\ consumed # << >>
        /\ consumed[Len(consumed)].cmd.op = "Quit"
        /\ consumed[Len(consumed)].from = s
        /\ ~dropped[t]
        /\ nsent[t] > ReachedChannel(t)
        /\ ReachedChannel(t) >= 1

\* the step receives a LoadSample whose file load_wav does not turn into
\* samples
FailedLoadConsumed ==
    /\ CommandConsumed
    /\ Consuming.op = "LoadSample"
    /\ load_wav(Consuming.path).res # "Ok"

\* C35: a LoadSample whose file cannot be read or parsed (missing file, no
\* data chunk, data marker in the last bytes of the file) leaves the sample
\* library unchanged, and the worker keeps running: it goes on with the
\* drain loop, where it receives the commands that follow.
C35_FailedLoadIsSkipped ==
    [][FailedLoadConsumed => (samples' = samples /\ wpc' = "drain")]_vars

\* ------------------------------------------------------------------------
\* Claims about the life of a note (SpecNotes)
\* ------------------------------------------------------------------------
\* the note is in its attack or sustain phase: no NoteOff has matched it
IsUnreleased(note) == note.target_amp = RAMP_FRAMES

UnreleasedFreqs(notes) ==
    LET kept == SelectSeq(notes, IsUnreleased)
    IN  [k \in DOMAIN kept |-> kept[k].freq]

IsPrefix(short, long) ==
    Len(short) <= Len(long) /\ SubSeq(long, 1, Len(short)) = short

\* C36: a note leaves active_notes only after a NoteOff of its frequency was
\* received after its creation: the notes in their attack or sustain phase
\* (target amplitude 1) are active and matched by no NoteOff so far, a
\* rendered chunk keeps every one of them, whatever the number of chunks, a
\* received command other than NoteOff keeps them too, and the amplitude of
\* every note is within [0, 1].
C36_NoteLeavesOnlyAfterNoteOff ==
    /\ [](\A k \in DOMAIN active_notes :
            /\ 0 <= active_notes[k].amplitude
            /\ active_notes[k].amplitude <= RAMP_FRAMES
            /\ (IsUnreleased(active_notes[k]) =>
                  (active_notes[k].active /\ note_age[k].off < 0))
            /\ (~IsUnreleased(active_notes[k]) =>
                  (active_notes[k].target_amp = 0 /\ note_age[k].off >= 0)))
    /\ [][/\ (~CommandConsumed =>
                UnreleasedFreqs(active_notes') = UnreleasedFreqs(active_notes))
           /\ ((CommandConsumed /\ Consuming.op # "NoteOff") =>
                IsPrefix(UnreleasedFreqs(active_notes), UnreleasedFreqs(active_notes')))
           /\ (Len(active_notes') < Len(active_notes) =>
                \E k \in DOMAIN active_notes :
                    ~IsUnreleased(active_notes[k]) /\ note_age[k].off >= 0)]_vars

\* a note has been sustained at full amplitude over MaxAge chunks or more,
\* while a note of another frequency was released and has gone
C36_Witness ==
    /\ Len(active_notes) = 1
    /\ IsUnreleased(active_notes[1])
    /\ active_notes[1].amplitude = RAMP_FRAMES
    /\ note_age[1].on = MaxAge
    /\ \E k \in DOMAIN consumed :
          consumed[k].cmd.op = "NoteOff" /\ consumed[k].cmd.freq # active_notes[1].freq

\* ------------------------------------------------------------------------
\* Claims about the end of start (FairShutdown)
\* ------------------------------------------------------------------------
LoopEnded == pc = "done"

StartReturned == LoopEnded /\ dropped[1]

\* C37: when the frame loop has ended and start returns, the engine's audio
\* handle is dropped and its Quit is sent: it is in the channel unless the
\* worker thread had ended before; the worker thread eventually ends, and
\* once it has received the Quit it has ended and writes no further chunk.
C37_WorkerStopsAfterStartReturns ==
    /\ LoopEnded ~> WorkerEnded
    /\ [](StartReturned =>
            \/ WorkerEnded
            \/ \E k \in DOMAIN Channel :
                  Channel[k].cmd.op = "Quit" /\ Channel[k].from = 1)
    /\ [](QuitConsumed => wpc = "quit")
    /\ [][QuitConsumed => out_count' = out_count]_vars

\* start has returned after a game that used the audio handle; the worker
\* has rendered chunks, received the game's commands and then the Quit
C37_Witness ==
    /\ StartReturned
    /\ wpc = "quit"
    /\ out_count >= 1
    /\ Len(consumed) >= 2
    /\ consumed[1].cmd.op = "NoteOn"
    /\ consumed[Len(consumed)].cmd.op = "Quit"
    /\ queue = << >>

\* ------------------------------------------------------------------------
\* C38: the button records of one update_mouse batch are folded to the last
\* recorded state before the edges are derived.  A button that is up, is
\* pressed by a record of the batch and is up again in the last button record
\* of the batch has neither mouse_pressed nor mouse_released set by that
\* call, and none of them is set until a later batch changes the button;
\* mouse_held[m] is the last recorded state of button m at all times.
\* ------------------------------------------------------------------------
C38_ButtonRecordsAreFolded ==
    /\ [](\A m \in Buttons :
            /\ mouse_held[m] = mouse_new_state[m]
            /\ mouse_tapped[m] =>
                  ~mouse_pressed[m] /\ ~mouse_released[m] /\ ~mouse_held[m])
    /\ [][\A m \in Buttons :
            /\ (mouse_pressed'[m] /\ ~mouse_pressed[m]) =>
                  (mouse_changed'[m] /\ mouse_new_state'[m])
            /\ (mouse_released'[m] /\ ~mouse_released[m]) =>
                  (mouse_changed'[m] /\ ~mouse_new_state'[m])
         ]_vars

\* one batch pressed and released a button while it pressed another one
C38_Witness ==
    \E m, n \in Buttons :
        /\ mouse_tapped[m]
        /\ ~mouse_pressed[m] /\ ~mouse_released[m] /\ ~mouse_held[m]
        /\ mouse_pressed[n] /\ mouse_held[n]

\* ------------------------------------------------------------------------
\* C39: draw_line(x1, y1, x2, y2) and draw_line(x2, y2, x1, y1) have the
\* same outcome on the same buffer, for all i32 endpoints: the buffer after
\* the call is the buffer the call with its endpoints swapped leaves.
\* ------------------------------------------------------------------------
SwappedOutcome ==
    LineOutcome([cell \in Cells |-> 0], draw_op.p2.x, draw_op.p2.y,
                draw_op.p1.x, draw_op.p1.y, draw_op.overflow_checks)

C39_LineIsSymmetric ==
    draw_op.op = "draw_line" =>
        /\ window_buffer = SwappedOutcome.buf
        /\ draw_pc = SwappedOutcome.res

\* the same for endpoints on the screen
C39_OnScreenLineIsSymmetric ==
    (draw_op.op = "draw_line" /\ OnScreen(draw_op.p1) /\ OnScreen(draw_op.p2)) =>
        /\ window_buffer = SwappedOutcome.buf
        /\ draw_pc = SwappedOutcome.res

\* ------------------------------------------------------------------------
\* C40: draw_partial_sprite with ox = oy = 0, w = sprite.width and
\* h = sprite.height leaves the buffer draw_sprite leaves at the same
\* position; and for every region, each cell that draw_partial_sprite writes
\* is the copy of a source cell (i + ox, j + oy) inside the sprite, and the
\* call returns.
\* ------------------------------------------------------------------------
PartialDrawn == draw_op.op = "draw_partial_sprite"

WholeSprite ==
    /\ PartialDrawn
    /\ draw_op.ox = 0 /\ draw_op.oy = 0
    /\ draw_op.w = sprite.width /\ draw_op.h = sprite.height

SameAsDrawSprite ==
    LET whole == BufferAfterSprite([cell \in Cells |-> 0], [cell \in Cells |-> 0],
                                   sprite, draw_op.x, draw_op.y, 1)
    IN  /\ draw_pc = "drawn"
        /\ window_buffer = whole.buf
        /\ window_attr = whole.attr

WritesComeFromTheSprite ==
    /\ draw_pc = "drawn"
    /\ \A k \in DOMAIN addressed :
          /\ (addressed[k].x - draw_op.x) + draw_op.ox < sprite.width
          /\ (addressed[k].y - draw_op.y) + draw_op.oy < sprite.height

C40_PartialSpriteRefinesDrawSprite ==
    /\ WholeSprite => SameAsDrawSprite
    /\ PartialDrawn => WritesComeFromTheSprite

\* the same for regions whose source indices fit a usize
C40_InRangePartialSpriteRefinesDrawSprite ==
    /\ WholeSprite => SameAsDrawSprite
    /\ (/\ PartialDrawn
        /\ draw_op.ox + draw_op.w <= USIZE_SPAN
        /\ draw_op.oy + draw_op.h <= USIZE_SPAN) => WritesComeFromTheSprite
====
